---------------------------- MODULE Spec2Model ----------------------------
(***************************************************************************)
(* Model of the reliable half-duplex transport of sound-communication      *)
(* (src/src/alternative.py, src/src/stream.py): two peers, each with a     *)
(* BufferedStream (input_buffer, output_buffer, direction flag) driven by  *)
(* a transport thread (ReliableTransceiver), a speaker-writer thread and a *)
(* mic-reader thread.  Bytes are naturals in 0..255, packets are sequences *)
(* of bytes.  On top of the transport, send and receive carry encrypted,   *)
(* length-prefixed, chunked messages (src/src/cryptoec.py).                *)
(***************************************************************************)
EXTENDS Integers, Sequences, FiniteSets, TLC

VARIABLES
    pc,                    \* position of each peer's transport thread
    script,                \* the calls each peer's application still makes
    paired,                \* the two scripts are duals (write <-> read of the same length)
    established,           \* the session was established before the scripts began
    loss,                  \* packets the channel may still lose
    last_sent_packet,      \* ReliableTransceiver.last_sent_packet
    last_received_packet,  \* ReliableTransceiver.last_received_packet
    turn_write,            \* BufferedStream._turn_write
    input_buffer,          \* BufferedStream.input_buffer (bytes)
    in_tag,                \* history: for each byte of input_buffer, the packet it came from
    output_buffer,         \* BufferedStream.output_buffer (list of packets)
    air,                   \* packets modulated by a peer and not yet heard by the other
    full_data,             \* write_insecure: seq byte + payload
    result,                \* write_insecure / read_insecure: bytes accumulated
    res_tag,               \* history: origin of the bytes in result
    size,                  \* write_insecure / read_insecure: bytes still wanted
    retries,               \* write_insecure: retry counter
    batch_id,              \* read_insecure: the seq byte read
    seq_tag,               \* history: origin of the byte read as batch_id
    calls,                 \* history: number of write_insecure calls made
    seq_at_call,           \* history: last_sent_packet when the current write_insecure began
    txlog,                 \* history: packets handed to stream.write by the current write_insecure
    wrote,                 \* history: payloads passed to write_insecure
    got,                   \* history: payloads returned by read_insecure
    got_id,                \* history: for each returned payload, the write call it came from
    last_ack,              \* history: the last ACK read_insecure handed to stream.write
    returned,              \* history: the call that returned last
    session_key,           \* ReliableTransceiver.session_key: the key and its _nonce_counter
    caller,                \* who called write_insecure / read_insecure
    data_chunks,           \* send: the chunks not yet written
    cipher_buffer,         \* receive: the ciphertext gathered
    left_size,             \* receive: ciphertext bytes still to read
    sent_msgs,             \* history: plaintexts passed to send
    recv_msgs,             \* history: plaintexts returned by receive
    enc_log,               \* history: the key and nonce of every SymmetricKey.encrypt
    runs,                  \* iterations of connect_init_*'s outer loop after which the program is stopped
    attempt,               \* iterations of the outer loop of connect_init_* begun
    syn_retries,           \* connect_init_*: retries
    prev_packet_time,      \* ReliableTransceiver.prev_packet_time (0: None)
    first_packet_time,     \* ReliableTransceiver.first_packet_time (0: None)
    stream_first_packet_time, \* AlternativeStream.first_packet_time (0: None)
    kx_step,               \* key_exchange_*: the write_insecure / read_insecure call in progress
    secret_key,            \* KeyExchanger._secret_key of the running key_exchange_* (0: None)
    in_session,            \* session_start has been entered in this connection attempt
    conn_log,              \* history: handshake and key-exchange packets first handed to stream.write
    garble,                \* packets the channel may still corrupt
    clean,                 \* history: the channel has lost and corrupted nothing so far
    threads                \* AlternativeStream: the writer and reader threads, the locks, the modem, the clock

vars == << pc, script, paired, established, loss, last_sent_packet, last_received_packet,
           turn_write, input_buffer, in_tag, output_buffer, air, full_data,
           result, res_tag, size, retries, batch_id, seq_tag, calls,
           seq_at_call, txlog, wrote, got, got_id, last_ack, returned,
           session_key, caller, data_chunks, cipher_buffer, left_size,
           sent_msgs, recv_msgs, enc_log, runs, attempt, syn_retries,
           prev_packet_time, first_packet_time, stream_first_packet_time,
           kx_step, secret_key, in_session, conn_log, garble, clean, threads >>

\* The state of send and receive.
sessionVars == << session_key, caller, data_chunks, cipher_buffer, left_size,
                 sent_msgs, recv_msgs, enc_log >>

\* The state of connect_init_*, key_exchange_* and connect.
connVars == << runs, attempt, syn_retries, prev_packet_time, first_packet_time,
              stream_first_packet_time, kx_step, secret_key, in_session, conn_log,
              garble >>

-----------------------------------------------------------------------------
(* Program constants *)

SYN == 1
ACK == 2
SeqModulus == 256
abort_retries == 5
chunk_size_max == 140
nonce_size == 8
REDUNDANCY_SIZE == 6
EC_BLOCK_SIZE == 16
LengthPrefixSize == 4
ReceiveThreshold == 12
PublicKeySize == 32
SynRetries == 3
FieldPrime == 251
BasePoint == 9

\* send: chunk_size = chunk_size_max - nonce_size - REDUNDANCY_SIZE
chunk_size == chunk_size_max - nonce_size - REDUNDANCY_SIZE

\* receive: chunk_size: int = 140 - 14
receive_chunk_size == 140 - 14

\* The sequence numbers of both peers when key_exchange_sender and
\* key_exchange_receiver reach session_start: three write_insecure and
\* three read_insecure calls (handshake included) on each side.
EstablishedSeq == 2

\* SymmetricKey._nonce_counter at session_start: the initiator has encrypted
\* b'Hello' and the ACK byte, the responder b'Hi'.
EstablishedNonce(p) == IF p = "A" THEN 2 ELSE 1

\* The shared key that get_symkey derives on both sides (one byte stands for it).
SharedKey == 90

(* Bounds of the model *)

MaxOps == 3
MaxLoss == 1
MaxSessionOps == 2
MaxAttempts == 2
MaxGarble == 1

Peers == {"A", "B"}

\* The audio threads are not looked at one statement at a time.
NoThreads == [me |-> "none"]

Other(p) == IF p = "A" THEN "B" ELSE "A"

-----------------------------------------------------------------------------
(* Sequences of bytes *)

Take(s, n) == SubSeq(s, 1, n)

Drop(s, n) == SubSeq(s, n + 1, Len(s))

\* Faulty variant: turn_read leaves the direction as it is.
TurnReadSkipped(tw, p) == tw

\* BufferedStream.turn_read: _turn_write of the stream of p becomes False
TurnRead(tw, p) == [tw EXCEPT ![p] = FALSE]

\* BufferedStream.read(length, block=False): the bytes returned ...
ReadDataAll(buf, length) == buf

ReadData(buf, length) == IF length <= Len(buf) THEN Take(buf, length) ELSE buf

\* ... and the bytes left in input_buffer.
ReadRest(buf, length) == IF length <= Len(buf) THEN Drop(buf, length) ELSE << >>

\* The origin of each byte of a packet: its kind, the byte's offset in the
\* packet, the packet's first byte and the write_insecure call that built it.
TagsOf(pkt) ==
    [i \in 1..Len(pkt.bytes) |->
        [k |-> pkt.kind, o |-> i - 1, s |-> pkt.bytes[1], w |-> pkt.w]]

NoTag == [k |-> "NONE", o |-> 0, s |-> 0, w |-> 0]

\* The write_insecure call whose DATA packet starts with the tagged byte (0: none).
DataCall(tag) == IF tag.k = "DATA" /\ tag.o = 0 THEN tag.w ELSE 0

\* write_insecure: self.last_sent_packet += 1; self.last_sent_packet %= 256
NextSentSeq(s) == (s + 1) % SeqModulus

\* read_insecure: self.last_received_packet += 1
NextReceivedSeq(s) == s + 1

\* write_insecure: full_data = struct.pack('<B', self.last_sent_packet) + data
DataPacket(seq, data, w) == [bytes |-> << seq >> \o data, kind |-> "DATA", w |-> w]

\* Faulty variant: the ACK names the expected seq, not the received one.
AckBytesExpected(id, expected) == << expected, ACK >>

\* read_insecure: struct.pack('<BB', batch_id, self.ACK)
AckBytes(id, expected) == << id, ACK >>

\* The ACK packet, with the write_insecure call whose packet it answers.
AckPacket(id, expected, w) ==
    [bytes |-> AckBytes(id, expected), kind |-> "ACK", w |-> w]

\* Faulty variant: no seq is ever ahead.
IsAheadNever(id, expected) == FALSE

\* read_insecure: batch_id > self.last_received_packet
IsAhead(id, expected) == id > expected

\* Faulty variant: no seq is ever a duplicate.
IsDuplicateNever(id, expected) == FALSE

\* read_insecure: batch_id < self.last_received_packet
IsDuplicate(id, expected) == id < expected

\* Faulty variant: a resend takes a new seq.
RetransmissionNewSeq(fd, sent) == << NextSentSeq(sent) >> \o Tail(fd)

\* write_insecure, lines 375 and 412: a resend writes full_data again
Retransmission(fd, sent) == fd

\* write_insecure: the check of the 2-byte response
IsFailure(response, sent) == response[2] # ACK \/ response[1] # sent

\* Faulty variant: one retry too many.
RetriesExhaustedLate(r) == r > abort_retries

\* write_insecure: if retries >= abort_retries: raise ConnectionAbortedError()
RetriesExhausted(r) == r >= abort_retries

-----------------------------------------------------------------------------
(* cryptoec.py: SymmetricKey; send / receive: framing *)

Min(a, b) == IF a <= b THEN a ELSE b

RECURSIVE LEBytes(_, _)
\* struct.pack('<I', n), struct.pack('<Q', n): n in k little-endian bytes
LEBytes(n, k) == IF k = 0 THEN << >> ELSE << n % 256 >> \o LEBytes(n \div 256, k - 1)

RECURSIVE FromLE(_)
\* struct.unpack('<I', b): the number the little-endian bytes b stand for
FromLE(b) == IF b = << >> THEN 0 ELSE Head(b) + 256 * FromLE(Tail(b))

RECURSIVE Xor(_, _)
\* bitwise exclusive or of two bytes
Xor(a, b) ==
    IF a = 0 THEN b
    ELSE IF b = 0 THEN a
    ELSE ((a + b) % 2) + 2 * Xor(a \div 2, b \div 2)

\* The byte of the chacha20 keystream at position i, for a key and a nonce.
KeyStream(key, nonce, i) == (key + 31 * FromLE(nonce) + 7 * i) % 256

\* monocypher.chacha20(key, nonce, data): data xor keystream
ChaCha20(key, nonce, data) ==
    [i \in 1..Len(data) |-> Xor(data[i], KeyStream(key, nonce, i))]

\* SymmetricKey.next_nonce: struct.pack('<Q', self._nonce_counter)
NextNonce(sk) == LEBytes(sk.ctr, nonce_size)

\* Faulty variant: next_nonce does not advance the counter.
NonceKept(sk) == sk

\* SymmetricKey.next_nonce: self._nonce_counter += 1 (the modulus 256**8 is
\* far beyond any counter reached here)
NonceUsed(sk) == [sk EXCEPT !.ctr = @ + 1]

\* What one call of SymmetricKey.encrypt uses: the key and the nonce.
Encryption(sk) == [key |-> sk.key, nonce |-> NextNonce(sk)]

\* SymmetricKey.encrypt: nonce + chacha20(key, nonce, data)
Encrypt(sk, data) == NextNonce(sk) \o ChaCha20(sk.key, NextNonce(sk), data)

\* SymmetricKey.decrypt: chacha20(key, data[:8], data[8:])
Decrypt(sk, data) ==
    ChaCha20(sk.key, Take(data, nonce_size), Drop(data, nonce_size))

\* SymmetricKey.dispose: the key bytes are wiped and the reference dropped
Dispose(sk) == [sk EXCEPT !.key = 0, !.state = "disposed"]

\* KeyExchanger.generate_key_pair: the secret scalar of the key pair that
\* peer p generates for its n-th key exchange
SecretKey(p, n) == IF p = "A" THEN n + 1 ELSE n + 4

\* monocypher.key_exchange (X25519): scalar multiplication, here in the
\* integers modulo FieldPrime
ScalarMult(k, u) == (k * u) % FieldPrime

\* KeyExchanger.exchange_pubkey: the public key, PublicKeySize bytes; the
\* first byte carries the point
PublicKey(p, n) ==
    [i \in 1..PublicKeySize |->
        IF i = 1 THEN ScalarMult(SecretKey(p, n), BasePoint) ELSE (3 * i) % 256]

\* Faulty variant: the secret is computed from the peer's own public key.
ComputeSecretOwn(p, n, their_pubkey) == ScalarMult(SecretKey(p, n), BasePoint)

\* KeyExchanger._compute_secret
ComputeSecret(p, n, their_pubkey) == ScalarMult(SecretKey(p, n), their_pubkey[1])

\* KeyExchanger.get_symkey: SymmetricKey(self._compute_secret(their_pubkey))
GetSymkey(p, n, their_pubkey) ==
    [key |-> ComputeSecret(p, n, their_pubkey), ctr |-> 0, state |-> "live"]

\* Faulty variant: the secret key is kept whatever `dispose` says.
SecretKept(secret, dispose) == secret

\* KeyExchanger.get_symkey, lines 104-105, and KeyExchanger.dispose: with
\* dispose the secret key is wiped and the reference dropped (0: None).
SecretAfterSymkey(secret, dispose) == IF dispose THEN 0 ELSE secret

\* b'Hello'
Hello == << 72, 101, 108, 108, 111 >>

\* b'Hi'
Hi == << 72, 105 >>

\* ErrorCorrector.encode: RSCodec(REDUNDANCY_SIZE, EC_BLOCK_SIZE +
\* REDUNDANCY_SIZE).encode cuts n bytes into blocks of EC_BLOCK_SIZE bytes and
\* appends REDUNDANCY_SIZE parity bytes to each block; the size of the result.
EncodedSize(n) ==
    n + REDUNDANCY_SIZE * ((n + EC_BLOCK_SIZE - 1) \div EC_BLOCK_SIZE)

\* send: len_data + encrypted_data
Framed(enc) == LEBytes(Len(enc), LengthPrefixSize) \o enc

RECURSIVE ChunksWide(_)
\* Faulty variant: the chunks are cut at chunk_size_max bytes.
ChunksWide(d) ==
    IF Len(d) >= chunk_size_max
    THEN << Take(d, chunk_size_max) >> \o ChunksWide(Drop(d, chunk_size_max))
    ELSE IF Len(d) > 0 THEN << d >> ELSE << >>

RECURSIVE Chunks(_)
\* send, lines 438-443: cut into chunks of chunk_size bytes
Chunks(d) ==
    IF Len(d) >= chunk_size
    THEN << Take(d, chunk_size) >> \o Chunks(Drop(d, chunk_size))
    ELSE IF Len(d) > 0 THEN << d >> ELSE << >>

-----------------------------------------------------------------------------
(* The calls an application makes *)

SendOp(m, n) == [op |-> "send", data |-> m, size |-> 0, n |-> n, late |-> FALSE]

ReceiveOp(n) == [op |-> "receive", data |-> << >>, size |-> 0, n |-> n, late |-> FALSE]

\* A plaintext of l bytes.
Message(l) == [i \in 1..l |-> (37 * i + 11) % 256]

\* Plaintext lengths: empty, short, one full chunk, three chunks.
MessageLengths == {0, 2, 114, 241}

Messages == {Message(l) : l \in MessageLengths}

\* The longest plaintext sent over a lossy channel.
ShortLength == 2

WriteOp(d, n) == [op |-> "write", data |-> d, size |-> 0, n |-> n, late |-> FALSE]

ReadOp(sz, n) == [op |-> "read", data |-> << >>, size |-> sz, n |-> n, late |-> FALSE]

\* A call the application makes when it pleases (the user presses the button
\* of the UI), however long the peer has been waiting.
Late(o) == [o EXCEPT !.late = TRUE]

Payloads == { << 7 >>, << 2, 9 >> }

ReadSizes == {1, 2}

Ops == {WriteOp(d, 1) : d \in Payloads} \cup {ReadOp(sz, 1) : sz \in ReadSizes}

Scripts == UNION {[1..n -> Ops] : n \in 0..MaxOps}

\* The calls send makes are matched by the calls receive makes.
Dual(o1, o2) ==
    /\ o1.n = o2.n
    /\ \/ o1.op = "write" /\ o2.op = "read" /\ o2.size = Len(o1.data)
       \/ o1.op = "read" /\ o2.op = "write" /\ o1.size = Len(o2.data)
       \/ o1.op = "send" /\ o2.op = "receive"
       \/ o1.op = "receive" /\ o2.op = "send"

IsPaired(a, b) ==
    /\ Len(a) = Len(b)
    /\ \A i \in 1..Len(a) : Dual(a[i], b[i])

\* The scripts of both peers, the packets the channel may lose, and whether
\* the session is established (handshake and key exchange done) or the
\* transceivers are fresh.
Scenario(a, b, l, est) ==
    [s |-> [p \in Peers |-> IF p = "A" THEN a ELSE b], loss |-> l, est |-> est]

\* The script in which call i is `mine` where dir[i] holds and `theirs` elsewhere.
Directed(dir, mine, theirs) ==
    [i \in DOMAIN dir |-> IF dir[i] THEN mine ELSE theirs]

Directions(n) == [1..n -> BOOLEAN]

\* Any calls on both peers, fewer than MaxOps in all, on a channel without loss.
FreeScenarios ==
    { Scenario(sc[1], sc[2], 0, FALSE) :
        sc \in { x \in Scripts \X Scripts : Len(x[1]) + Len(x[2]) < MaxOps } }

\* Writes of two bytes and reads of one byte, so that a read leaves a byte of
\* the payload in input_buffer.
MismatchOps == {WriteOp(<< 2, 9 >>, 1), ReadOp(1, 1)}

MismatchScripts == UNION {[1..n -> MismatchOps] : n \in 0..MaxOps}

\* At most MaxOps such calls in all, on a channel without loss.
MismatchScenarios ==
    { Scenario(sc[1], sc[2], 0, FALSE) :
        sc \in { x \in MismatchScripts \X MismatchScripts :
                    Len(x[1]) + Len(x[2]) <= MaxOps } }

\* Up to MaxOps calls on one peer, each matched by its dual on the other, on a
\* channel that loses up to MaxLoss packets.
PairedScenarios ==
    UNION { { Scenario(Directed(dir, WriteOp(d, 1), ReadOp(Len(d), 1)),
                       Directed(dir, ReadOp(Len(d), 1), WriteOp(d, 1)), l, FALSE) :
                dir \in Directions(n), d \in Payloads, l \in 0..MaxLoss } :
            n \in 0..MaxOps }

SessionOps == {SendOp(Message(0), 1), SendOp(Message(2), 1), ReceiveOp(1)}

SessionScripts == UNION {[1..n -> SessionOps] : n \in 0..MaxSessionOps}

\* Any send and receive calls, at most MaxSessionOps in all, without loss.
SessionFreeScenarios ==
    { Scenario(sc[1], sc[2], 0, TRUE) :
        sc \in { x \in SessionScripts \X SessionScripts :
                    Len(x[1]) + Len(x[2]) <= MaxSessionOps } }

\* The packets the channel may lose while it carries message m: none when
\* the message takes more than one packet.
LossesFor(m) == IF Len(m) > ShortLength THEN {0} ELSE 0..MaxLoss

\* Up to MaxSessionOps send calls, each matched by a receive on the other peer.
SessionPairedScenarios ==
    UNION { { Scenario(Directed(x.dir, SendOp(x.m, 1), ReceiveOp(1)),
                       Directed(x.dir, ReceiveOp(1), SendOp(x.m, 1)), x.l, TRUE) :
                x \in { y \in [dir : Directions(n), m : Messages, l : 0..MaxLoss] :
                            y.l \in LossesFor(y.m) } } :
            n \in 1..MaxSessionOps }

\* One peer writes SeqModulus + 1 payloads and the other reads them; one peer
\* sends as many messages as take last_sent_packet past SeqModulus - 1.
WrapScenarios ==
    { Scenario(<< WriteOp(<< 7 >>, SeqModulus + 1) >>,
               << ReadOp(1, SeqModulus + 1) >>, 0, FALSE),
      Scenario(<< SendOp(Message(0), SeqModulus - EstablishedSeq) >>,
               << ReceiveOp(SeqModulus - EstablishedSeq) >>, 0, TRUE) }

\* Both peers call send at once in an established session; the blob of the
\* second message has 258 bytes, so that its length prefix begins with 02.
CrossingScenarios ==
    { Scenario(<< SendOp(Message(115), 1) >>, << SendOp(Message(250), 1) >>, 0, TRUE) }

\* One peer writes two payloads; the other reads them, the first time late.
LateScenarios ==
    { Scenario(<< WriteOp(<< 7 >>, 2) >>,
               << Late(ReadOp(1, 1)), ReadOp(1, 1) >>, 0, FALSE) }

Scenarios ==
    FreeScenarios \cup MismatchScenarios \cup PairedScenarios
        \cup SessionFreeScenarios
        \cup SessionPairedScenarios \cup WrapScenarios
        \cup CrossingScenarios

-----------------------------------------------------------------------------
(* Positions of the transport thread *)

BlockedInWrite ==
    {"w_send", "w_resend_timeout", "w_resend_failure", "r_ack", "r_dup_ack"}

InWrite == {"w_send", "w_wait", "w_resend_timeout", "w_resend_failure"}

InRead == {"r_seq", "r_dup_sleep", "r_dup_ack", "r_data", "r_ack"}

\* The positions in which ConnectionAbortedError has been raised.
ConnectionAborted == {"aborted_skew", "aborted_timeout", "aborted_retries"}

AbortedPcs ==
    {"aborted_skew", "aborted_timeout", "aborted_retries", "aborted_crypto"}

\* The transport thread of p runs without waiting for time to pass: it has a
\* call to make, the stream.write it blocks in has drained, or the buffer it
\* polls every `precision` seconds holds bytes.
Urgent(p) ==
    \/ pc[p] = "idle" /\ script[p] # << >> /\ ~Head(script[p]).late
    \/ pc[p] \in BlockedInWrite /\ output_buffer[p] = << >>
    \/ pc[p] = "w_wait" /\ (input_buffer[p] # << >> \/ size[p] = 0)
    \/ pc[p] \in {"r_seq", "r_data"} /\ input_buffer[p] # << >>
    \/ pc[p] \in {"s_loop", "rcv_loop"}
    \/ pc[p] = "idle" /\ in_session[p] /\ script[p] = << >>
    \/ pc[p] = "connect" /\ attempt[p] < runs
    \/ pc[p] \in {"ci_syn", "ci_response", "cr_done", "kx_loop"}
    \/ pc[p] \in ConnectionAborted /\ attempt[p] > 0
    \/ pc[p] \in {"ci_syn_out", "ci_ack_out", "cr_synack_out"} /\ output_buffer[p] = << >>
    \/ pc[p] \in {"cr_wait", "cr_ack_wait"} /\ input_buffer[p] # << >>
    \/ pc[p] = "rcv_wait" /\ Len(input_buffer[p]) >= ReceiveThreshold

\* No timer ever expires.
QuietNever == FALSE

\* Nothing is in flight and no thread is about to act: only then do the long
\* timers (resend_timeout = 3 s, abort_timeout = 15 s) expire.
Quiet ==
    \A p \in Peers :
        /\ air[p] = << >>
        /\ output_buffer[p] = << >>
        /\ ~Urgent(p)
        /\ pc[p] # "r_dup_sleep"

-----------------------------------------------------------------------------
InitOf(scenarios) ==
    \E sc \in scenarios :
        /\ script = sc.s
        /\ paired = IsPaired(sc.s["A"], sc.s["B"])
        /\ established = sc.est
        /\ loss = sc.loss
        /\ pc = [p \in Peers |-> "idle"]
        /\ last_sent_packet = [p \in Peers |-> IF sc.est THEN EstablishedSeq ELSE -1]
        /\ last_received_packet = [p \in Peers |-> IF sc.est THEN EstablishedSeq ELSE -1]
        /\ turn_write = [p \in Peers |-> ~sc.est /\ p = "A"]
        /\ input_buffer = [p \in Peers |-> << >>]
        /\ in_tag = [p \in Peers |-> << >>]
        /\ output_buffer = [p \in Peers |-> << >>]
        /\ air = [p \in Peers |-> << >>]
        /\ full_data = [p \in Peers |-> << >>]
        /\ result = [p \in Peers |-> << >>]
        /\ res_tag = [p \in Peers |-> << >>]
        /\ size = [p \in Peers |-> 0]
        /\ retries = [p \in Peers |-> 0]
        /\ batch_id = [p \in Peers |-> 0]
        /\ seq_tag = [p \in Peers |-> NoTag]
        /\ calls = [p \in Peers |-> 0]
        /\ seq_at_call = [p \in Peers |-> IF sc.est THEN EstablishedSeq ELSE -1]
        /\ txlog = [p \in Peers |-> << >>]
        /\ wrote = [p \in Peers |-> << >>]
        /\ got = [p \in Peers |-> << >>]
        /\ got_id = [p \in Peers |-> << >>]
        /\ last_ack = [p \in Peers |-> [ack |-> << >>, tag |-> NoTag, dup |-> FALSE]]
        /\ returned = [p \in Peers |-> "none"]
        /\ session_key = [p \in Peers |->
              [key |-> SharedKey, ctr |-> IF sc.est THEN EstablishedNonce(p) ELSE 0,
               state |-> "live"]]
        /\ caller = [p \in Peers |-> "app"]
        /\ data_chunks = [p \in Peers |-> << >>]
        /\ cipher_buffer = [p \in Peers |-> << >>]
        /\ left_size = [p \in Peers |-> 0]
        /\ sent_msgs = [p \in Peers |-> << >>]
        /\ recv_msgs = [p \in Peers |-> << >>]
        /\ enc_log = [p \in Peers |-> << >>]
        /\ runs = 0
        /\ attempt = [p \in Peers |-> 0]
        /\ syn_retries = [p \in Peers |-> 0]
        /\ prev_packet_time = [p \in Peers |-> 0]
        /\ first_packet_time = [p \in Peers |-> 0]
        /\ stream_first_packet_time = [p \in Peers |-> 0]
        /\ kx_step = [p \in Peers |-> 0]
        /\ secret_key = [p \in Peers |-> IF sc.est /\ p = "B" THEN SecretKey(p, 1) ELSE 0]
        /\ in_session = [p \in Peers |-> FALSE]
        /\ conn_log = << >>
        /\ garble = 0
        /\ clean = TRUE
        /\ threads = NoThreads

-----------------------------------------------------------------------------
(* The application: the next call of the script *)

PopOp(s) ==
    IF Head(s).n > 1
    THEN << [Head(s) EXCEPT !.n = @ - 1] >> \o Tail(s)
    ELSE Tail(s)

\* Where the transport thread goes on when write_insecure returns to its caller.
AfterWrite(c) ==
    IF c = "app" THEN "idle" ELSE IF c = "send" THEN "s_loop" ELSE "kx_loop"

\* Where the transport thread goes on when read_insecure returns to its caller.
AfterRead(c) ==
    IF c = "app" THEN "idle"
    ELSE IF c \in {"receive_first", "receive_more"} THEN "rcv_loop"
    ELSE IF c = "connect_init" THEN "ci_response"
    ELSE IF c = "connect" THEN "after_sleep"
    ELSE "kx_loop"

\* read_insecure: send_ack is False only in connect_init_sender
SendAck(c) == c # "connect_init"

-----------------------------------------------------------------------------
(* ReliableTransceiver.write_insecure *)

\* Lines 354-361: new seq, build the packet, turn WRITE, hand it to stream.write.
WriteCall(p, data) ==
    /\ LET seq == NextSentSeq(last_sent_packet[p])
           pkt == DataPacket(seq, data, calls[p] + 1)
       IN /\ last_sent_packet' = [last_sent_packet EXCEPT ![p] = seq]
          /\ full_data' = [full_data EXCEPT ![p] = pkt.bytes]
          /\ output_buffer' = [output_buffer EXCEPT ![p] = Append(@, pkt)]
          /\ txlog' = [txlog EXCEPT ![p] = << pkt.bytes >>]
          /\ wrote' = [wrote EXCEPT ![p] = Append(@, data)]
    /\ turn_write' = [turn_write EXCEPT ![p] = TRUE]
    /\ seq_at_call' = [seq_at_call EXCEPT ![p] = last_sent_packet[p]]
    /\ calls' = [calls EXCEPT ![p] = @ + 1]
    /\ pc' = [pc EXCEPT ![p] = "w_send"]
    /\ UNCHANGED << paired, established, loss, last_received_packet, input_buffer, in_tag,
                    air, result, res_tag, size, retries, batch_id, seq_tag,
                    got, got_id, last_ack >>

\* The application calls write_insecure.
StartWrite(p) ==
    /\ pc[p] = "idle"
    /\ script[p] # << >>
    /\ Head(script[p]).op = "write"
    /\ WriteCall(p, Head(script[p]).data)
    /\ script' = [script EXCEPT ![p] = PopOp(@)]
    /\ UNCHANGED returned
    /\ UNCHANGED sessionVars
    /\ UNCHANGED << connVars, clean, threads >>

\* Lines 361-367, 385: stream.write has returned; enter the confirmation loop.
WriteSent(p) ==
    /\ pc[p] = "w_send"
    /\ output_buffer[p] = << >>
    /\ size' = [size EXCEPT ![p] = 2]
    /\ result' = [result EXCEPT ![p] = << >>]
    /\ res_tag' = [res_tag EXCEPT ![p] = << >>]
    /\ retries' = [retries EXCEPT ![p] = 0]
    /\ turn_write' = TurnRead(turn_write, p)
    /\ pc' = [pc EXCEPT ![p] = "w_wait"]
    /\ UNCHANGED << script, paired, established, loss, last_sent_packet, last_received_packet,
                    input_buffer, in_tag, output_buffer, air, full_data,
                    batch_id, seq_tag, calls, seq_at_call, txlog, wrote, got,
                    got_id, last_ack, returned >>
    /\ UNCHANGED sessionVars
    /\ UNCHANGED << connVars, clean, threads >>

\* Lines 385-424: one poll of the confirmation loop that finds bytes (or that
\* finds size = 0 left by an earlier failure).
WaitConfirmation(p) ==
    /\ pc[p] = "w_wait"
    /\ input_buffer[p] # << >> \/ size[p] = 0
    /\ LET buffer == ReadData(input_buffer[p], size[p])
           tags == ReadData(in_tag[p], size[p])
           res == result[p] \o buffer
           sz == size[p] - Len(buffer)
       IN /\ input_buffer' = [input_buffer EXCEPT ![p] = ReadRest(@, size[p])]
          /\ in_tag' = [in_tag EXCEPT ![p] = ReadRest(@, size[p])]
          /\ result' = [result EXCEPT ![p] = res]
          /\ res_tag' = [res_tag EXCEPT ![p] = @ \o tags]
          /\ size' = [size EXCEPT ![p] = sz]
          /\ IF sz > 0
             THEN \* time.sleep(precision)
                  UNCHANGED << pc, turn_write, output_buffer, txlog, returned >>
             ELSE IF IsFailure(res, last_sent_packet[p])
             THEN \* lines 409-412: resend on failure
                  /\ turn_write' = [turn_write EXCEPT ![p] = TRUE]
                  /\ output_buffer' = [output_buffer EXCEPT ![p] =
                        Append(@, [bytes |-> Retransmission(full_data[p], last_sent_packet[p]),
                                   kind |-> "DATA", w |-> calls[p]])]
                  /\ txlog' = [txlog EXCEPT ![p] =
                        Append(@, Retransmission(full_data[p], last_sent_packet[p]))]
                  /\ pc' = [pc EXCEPT ![p] = "w_resend_failure"]
                  /\ UNCHANGED returned
             ELSE \* line 422: return
                  /\ pc' = [pc EXCEPT ![p] = AfterWrite(caller[p])]
                  /\ returned' = [returned EXCEPT ![p] = "write"]
                  /\ UNCHANGED << turn_write, output_buffer, txlog >>
    /\ UNCHANGED << script, paired, established, loss, last_sent_packet, last_received_packet,
                    air, full_data, retries, batch_id, seq_tag, calls,
                    seq_at_call, wrote, got, got_id, last_ack >>
    /\ UNCHANGED sessionVars
    /\ UNCHANGED << connVars, clean, threads >>

\* Lines 372-375: resend_timeout has elapsed since the last transmission.
ResendOnTimeout(p) ==
    /\ pc[p] = "w_wait"
    /\ Quiet
    /\ turn_write' = [turn_write EXCEPT ![p] = TRUE]
    /\ output_buffer' = [output_buffer EXCEPT ![p] =
          Append(@, [bytes |-> Retransmission(full_data[p], last_sent_packet[p]),
                     kind |-> "DATA", w |-> calls[p]])]
    /\ txlog' = [txlog EXCEPT ![p] =
          Append(@, Retransmission(full_data[p], last_sent_packet[p]))]
    /\ pc' = [pc EXCEPT ![p] = "w_resend_timeout"]
    /\ UNCHANGED << script, paired, established, loss, last_sent_packet, last_received_packet,
                    input_buffer, in_tag, air, full_data, result, res_tag, size,
                    retries, batch_id, seq_tag, calls, seq_at_call, wrote, got,
                    got_id, last_ack, returned >>
    /\ UNCHANGED sessionVars
    /\ UNCHANGED << connVars, clean, threads >>

\* Lines 376-383 and 413-420: the resend has been written; count it, abort when
\* the retries are used up, else go back to polling (turn READ).
ResendDone(p) ==
    /\ pc[p] \in {"w_resend_timeout", "w_resend_failure"}
    /\ output_buffer[p] = << >>
    /\ retries' = [retries EXCEPT ![p] = @ + 1]
    /\ IF RetriesExhausted(retries[p] + 1)
       THEN /\ pc' = [pc EXCEPT ![p] = "aborted_retries"]
            /\ UNCHANGED turn_write
       ELSE /\ pc' = [pc EXCEPT ![p] = "w_wait"]
            /\ turn_write' = TurnRead(turn_write, p)
    /\ UNCHANGED << script, paired, established, loss, last_sent_packet, last_received_packet,
                    input_buffer, in_tag, output_buffer, air, full_data, result,
                    res_tag, size, batch_id, seq_tag, calls, seq_at_call, txlog,
                    wrote, got, got_id, last_ack, returned >>
    /\ UNCHANGED sessionVars
    /\ UNCHANGED << connVars, clean, threads >>

-----------------------------------------------------------------------------
(* ReliableTransceiver.read_insecure (send_ack = True) *)

\* Lines 260-267: expect the next seq, turn READ.
ReadCall(p, sz) ==
    /\ last_received_packet' =
          [last_received_packet EXCEPT ![p] = NextReceivedSeq(@)]
    /\ size' = [size EXCEPT ![p] = sz]
    /\ result' = [result EXCEPT ![p] = << >>]
    /\ res_tag' = [res_tag EXCEPT ![p] = << >>]
    /\ turn_write' = TurnRead(turn_write, p)
    /\ pc' = [pc EXCEPT ![p] = "r_seq"]
    /\ UNCHANGED << paired, established, loss, last_sent_packet, input_buffer, in_tag,
                    output_buffer, air, full_data, retries, batch_id, seq_tag,
                    calls, seq_at_call, txlog, wrote, got, got_id, last_ack >>

\* The application calls read_insecure.
StartRead(p) ==
    /\ pc[p] = "idle"
    /\ script[p] # << >>
    /\ Head(script[p]).op = "read"
    /\ ReadCall(p, Head(script[p]).size)
    /\ script' = [script EXCEPT ![p] = PopOp(@)]
    /\ UNCHANGED returned
    /\ UNCHANGED sessionVars
    /\ UNCHANGED << connVars, clean, threads >>

\* Lines 277-315: one poll of the first loop that finds a byte: the seq.
ReadSeq(p) ==
    /\ pc[p] = "r_seq"
    /\ input_buffer[p] # << >>
    /\ LET id == Head(input_buffer[p])
       IN /\ batch_id' = [batch_id EXCEPT ![p] = id]
          /\ pc' = [pc EXCEPT ![p] =
                IF IsAhead(id, last_received_packet[p]) THEN "aborted_skew"
                ELSE IF IsDuplicate(id, last_received_packet[p]) THEN "r_dup_sleep"
                ELSE "r_data"]
    /\ seq_tag' = [seq_tag EXCEPT ![p] = Head(in_tag[p])]
    /\ input_buffer' = [input_buffer EXCEPT ![p] = Tail(@)]
    /\ in_tag' = [in_tag EXCEPT ![p] = Tail(@)]
    /\ UNCHANGED << script, paired, established, loss, last_sent_packet, last_received_packet,
                    turn_write, output_buffer, air, full_data, result, res_tag,
                    size, retries, calls, seq_at_call, txlog, wrote, got,
                    got_id, last_ack, returned >>
    /\ UNCHANGED sessionVars
    /\ UNCHANGED << connVars, clean, threads >>

\* Lines 303-310: after the 1 s sleep, clear the input buffer, turn WRITE and
\* answer the duplicate with an ACK.
DuplicateAck(p) ==
    /\ pc[p] = "r_dup_sleep"
    /\ input_buffer' = [input_buffer EXCEPT ![p] = << >>]
    /\ in_tag' = [in_tag EXCEPT ![p] = << >>]
    /\ turn_write' = [turn_write EXCEPT ![p] = TRUE]
    /\ output_buffer' = [output_buffer EXCEPT ![p] =
          Append(@, AckPacket(batch_id[p], last_received_packet[p], seq_tag[p].w))]
    /\ last_ack' = [last_ack EXCEPT ![p] =
          [ack |-> AckBytes(batch_id[p], last_received_packet[p]),
           tag |-> seq_tag[p], dup |-> TRUE]]
    /\ pc' = [pc EXCEPT ![p] = "r_dup_ack"]
    /\ UNCHANGED << script, paired, established, loss, last_sent_packet, last_received_packet,
                    air, full_data, result, res_tag, size, retries, batch_id,
                    seq_tag, calls, seq_at_call, txlog, wrote, got, got_id, returned >>
    /\ UNCHANGED sessionVars
    /\ UNCHANGED << connVars, clean, threads >>

\* Lines 311-313: the ACK has been written; turn READ and poll again.
DuplicateAckSent(p) ==
    /\ pc[p] = "r_dup_ack"
    /\ output_buffer[p] = << >>
    /\ turn_write' = TurnRead(turn_write, p)
    /\ pc' = [pc EXCEPT ![p] = "r_seq"]
    /\ UNCHANGED << script, paired, established, loss, last_sent_packet, last_received_packet,
                    input_buffer, in_tag, output_buffer, air, full_data, result,
                    res_tag, size, retries, batch_id, seq_tag, calls,
                    seq_at_call, txlog, wrote, got, got_id, last_ack, returned >>
    /\ UNCHANGED sessionVars
    /\ UNCHANGED << connVars, clean, threads >>

\* Lines 317-345: one poll of the second loop that finds bytes of the payload;
\* when the payload is complete, turn WRITE and answer with the ACK.
ReadPayload(p) ==
    /\ pc[p] = "r_data"
    /\ input_buffer[p] # << >>
    /\ LET buffer == ReadData(input_buffer[p], size[p])
           sz == size[p] - Len(buffer)
       IN /\ input_buffer' = [input_buffer EXCEPT ![p] = ReadRest(@, size[p])]
          /\ in_tag' = [in_tag EXCEPT ![p] = ReadRest(@, size[p])]
          /\ result' = [result EXCEPT ![p] = @ \o buffer]
          /\ res_tag' = [res_tag EXCEPT ![p] = @ \o ReadData(in_tag[p], size[p])]
          /\ size' = [size EXCEPT ![p] = sz]
          /\ IF sz > 0
             THEN UNCHANGED << pc, turn_write, output_buffer, last_ack >>
             ELSE IF ~SendAck(caller[p])
             THEN \* lines 349-352: return (ack_packet, result)
                  /\ pc' = [pc EXCEPT ![p] = AfterRead(caller[p])]
                  /\ UNCHANGED << turn_write, output_buffer, last_ack >>
             ELSE /\ turn_write' = [turn_write EXCEPT ![p] = TRUE]
                  /\ output_buffer' = [output_buffer EXCEPT ![p] =
                        Append(@, AckPacket(batch_id[p], last_received_packet[p], seq_tag[p].w))]
                  /\ last_ack' = [last_ack EXCEPT ![p] =
                        [ack |-> AckBytes(batch_id[p], last_received_packet[p]),
                         tag |-> seq_tag[p], dup |-> FALSE]]
                  /\ pc' = [pc EXCEPT ![p] = "r_ack"]
    /\ UNCHANGED << script, paired, established, loss, last_sent_packet, last_received_packet,
                    air, full_data, retries, batch_id, seq_tag, calls,
                    seq_at_call, txlog, wrote, got, got_id, returned >>
    /\ UNCHANGED sessionVars
    /\ UNCHANGED << connVars, clean, threads >>

\* Lines 341-350: the ACK has been written; turn READ and return the payload.
ReadReturn(p) ==
    /\ pc[p] = "r_ack"
    /\ output_buffer[p] = << >>
    /\ turn_write' = TurnRead(turn_write, p)
    /\ got' = [got EXCEPT ![p] = Append(@, result[p])]
    /\ got_id' = [got_id EXCEPT ![p] = Append(@, DataCall(seq_tag[p]))]
    /\ returned' = [returned EXCEPT ![p] = "read"]
    /\ pc' = [pc EXCEPT ![p] = AfterRead(caller[p])]
    /\ UNCHANGED << script, paired, established, loss, last_sent_packet, last_received_packet,
                    input_buffer, in_tag, output_buffer, air, full_data, result,
                    res_tag, size, retries, batch_id, seq_tag, calls,
                    seq_at_call, txlog, wrote, last_ack >>
    /\ UNCHANGED sessionVars
    /\ UNCHANGED << connVars, clean, threads >>

\* Lines 272-274 and 323-325: abort_timeout has elapsed.
ReadTimeout(p) ==
    /\ pc[p] \in {"r_seq", "r_data"}
    /\ Quiet
    /\ pc' = [pc EXCEPT ![p] = "aborted_timeout"]
    /\ UNCHANGED << script, paired, established, loss, last_sent_packet, last_received_packet,
                    turn_write, input_buffer, in_tag, output_buffer, air,
                    full_data, result, res_tag, size, retries, batch_id, seq_tag,
                    calls, seq_at_call, txlog, wrote, got, got_id, last_ack, returned >>
    /\ UNCHANGED sessionVars
    /\ UNCHANGED << connVars, clean, threads >>

-----------------------------------------------------------------------------
(* ReliableTransceiver.send *)

\* Lines 426-448: encrypt, prefix the length, cut into chunks, write the first.
Send(p) ==
    /\ pc[p] = "idle"
    /\ script[p] # << >>
    /\ Head(script[p]).op = "send"
    /\ LET orig_data == Head(script[p]).data
       IN \E chunks \in { Chunks(Framed(Encrypt(session_key[p], orig_data))) } :
             /\ WriteCall(p, Head(chunks))
             /\ data_chunks' = [data_chunks EXCEPT ![p] = Tail(chunks)]
             /\ sent_msgs' = [sent_msgs EXCEPT ![p] = Append(@, orig_data)]
    /\ session_key' = [session_key EXCEPT ![p] = NonceUsed(@)]
    /\ enc_log' = [enc_log EXCEPT ![p] = Append(@, Encryption(session_key[p]))]
    /\ caller' = [caller EXCEPT ![p] = "send"]
    /\ script' = [script EXCEPT ![p] = PopOp(@)]
    /\ UNCHANGED << returned, cipher_buffer, left_size, recv_msgs >>
    /\ UNCHANGED << connVars, clean, threads >>

\* Lines 447-448: write_insecure has returned; write the next chunk or return.
SendLoop(p) ==
    /\ pc[p] = "s_loop"
    /\ IF data_chunks[p] # << >>
       THEN /\ WriteCall(p, Head(data_chunks[p]))
            /\ data_chunks' = [data_chunks EXCEPT ![p] = Tail(@)]
            /\ UNCHANGED << returned, caller >>
       ELSE /\ pc' = [pc EXCEPT ![p] = "idle"]
            /\ returned' = [returned EXCEPT ![p] = "send"]
            /\ caller' = [caller EXCEPT ![p] = "app"]
            /\ UNCHANGED << paired, established, loss, last_sent_packet, last_received_packet,
                            turn_write, input_buffer, in_tag, output_buffer, air,
                            full_data, result, res_tag, size, retries, batch_id,
                            seq_tag, calls, seq_at_call, txlog, wrote, got,
                            got_id, last_ack, data_chunks >>
    /\ UNCHANGED << script, session_key, cipher_buffer, left_size, sent_msgs,
                    recv_msgs, enc_log >>
    /\ UNCHANGED << connVars, clean, threads >>

-----------------------------------------------------------------------------
(* ReliableTransceiver.receive *)

\* Lines 450-453: start polling input_buffer.
Receive(p) ==
    /\ pc[p] = "idle"
    /\ script[p] # << >>
    /\ Head(script[p]).op = "receive"
    /\ pc' = [pc EXCEPT ![p] = "rcv_wait"]
    /\ script' = [script EXCEPT ![p] = PopOp(@)]
    /\ UNCHANGED << paired, established, loss, last_sent_packet, last_received_packet,
                    turn_write, input_buffer, in_tag, output_buffer, air,
                    full_data, result, res_tag, size, retries, batch_id, seq_tag,
                    calls, seq_at_call, txlog, wrote, got, got_id, last_ack,
                    returned >>
    /\ UNCHANGED sessionVars
    /\ UNCHANGED << connVars, clean, threads >>

\* Lines 453-459: input_buffer holds 12 bytes; read all of them but one.
ReceiveFirst(p) ==
    /\ pc[p] = "rcv_wait"
    /\ Len(input_buffer[p]) >= ReceiveThreshold
    /\ ReadCall(p, Min(Len(input_buffer[p]) - 1, receive_chunk_size))
    /\ caller' = [caller EXCEPT ![p] = "receive_first"]
    /\ UNCHANGED << script, returned, session_key, data_chunks, cipher_buffer,
                    left_size, sent_msgs, recv_msgs, enc_log >>
    /\ UNCHANGED << connVars, clean, threads >>

\* Lines 456-457: the timeout of receive has elapsed.
ReceiveTimeout(p) ==
    /\ pc[p] = "rcv_wait"
    /\ Quiet
    /\ pc' = [pc EXCEPT ![p] = "aborted_timeout"]
    /\ UNCHANGED << script, paired, established, loss, last_sent_packet, last_received_packet,
                    turn_write, input_buffer, in_tag, output_buffer, air,
                    full_data, result, res_tag, size, retries, batch_id, seq_tag,
                    calls, seq_at_call, txlog, wrote, got, got_id, last_ack,
                    returned >>
    /\ UNCHANGED sessionVars
    /\ UNCHANGED << connVars, clean, threads >>

\* Lines 461-474: read_insecure has returned; take the length from the first
\* chunk, read on while ciphertext is missing, then decrypt and return.
ReceiveLoop(p) ==
    /\ pc[p] = "rcv_loop"
    /\ LET data == result[p]
           first == caller[p] = "receive_first"
           buffer == IF first THEN Drop(data, LengthPrefixSize)
                              ELSE cipher_buffer[p] \o data
           left == IF first
                   THEN FromLE(Take(data, LengthPrefixSize)) - Len(buffer)
                   ELSE left_size[p] - Len(data)
       IN /\ cipher_buffer' = [cipher_buffer EXCEPT ![p] = buffer]
          /\ left_size' = [left_size EXCEPT ![p] = left]
          /\ IF left > 0
             THEN /\ ReadCall(p, Min(left, receive_chunk_size))
                  /\ caller' = [caller EXCEPT ![p] = "receive_more"]
                  /\ UNCHANGED << returned, recv_msgs >>
             ELSE /\ IF Len(buffer) < nonce_size
                     THEN \* chacha20 rejects a nonce that is not 8 bytes long
                          /\ pc' = [pc EXCEPT ![p] = "aborted_crypto"]
                          /\ UNCHANGED << returned, recv_msgs >>
                     ELSE /\ pc' = [pc EXCEPT ![p] = "idle"]
                          /\ returned' = [returned EXCEPT ![p] = "receive"]
                          /\ recv_msgs' = [recv_msgs EXCEPT ![p] =
                                Append(@, Decrypt(session_key[p], buffer))]
                  /\ caller' = [caller EXCEPT ![p] = "app"]
                  /\ UNCHANGED << paired, established, loss, last_sent_packet,
                                  last_received_packet, turn_write, input_buffer,
                                  in_tag, output_buffer, air, full_data, result,
                                  res_tag, size, retries, batch_id, seq_tag,
                                  calls, seq_at_call, txlog, wrote, got, got_id,
                                  last_ack >>
    /\ UNCHANGED << script, session_key, data_chunks, sent_msgs, enc_log >>
    /\ UNCHANGED << connVars, clean, threads >>

-----------------------------------------------------------------------------
(* AlternativeStream: the audio threads and the acoustic channel *)

\* _try_write, lines 159-174: in WRITE direction, pop the last packet of
\* output_buffer and modulate it.
SpeakerWrite(p) ==
    /\ turn_write[p]
    /\ output_buffer[p] # << >>
    /\ air' = [air EXCEPT ![p] = Append(@, output_buffer[p][Len(output_buffer[p])])]
    /\ output_buffer' = [output_buffer EXCEPT ![p] = Take(@, Len(@) - 1)]
    /\ UNCHANGED << pc, script, paired, established, loss, last_sent_packet,
                    last_received_packet, turn_write, input_buffer, in_tag,
                    full_data, result, res_tag, size, retries, batch_id, seq_tag,
                    calls, seq_at_call, txlog, wrote, got, got_id, last_ack, returned >>
    /\ UNCHANGED sessionVars
    /\ UNCHANGED << connVars, clean, threads >>

\* _read_loop, lines 106-126: in READ direction a decoded packet is appended to
\* input_buffer; in WRITE direction the captured frames are thrown away.  The
\* peer's waveform ends, and is decoded 0.15 s later, only after the transport
\* thread has done what it can do at once.
MicRead(p) ==
    /\ air[Other(p)] # << >>
    /\ ~Urgent(p)
    /\ air' = [air EXCEPT ![Other(p)] = Tail(@)]
    /\ IF turn_write[p]
       THEN UNCHANGED << input_buffer, in_tag >>
       ELSE /\ input_buffer' = [input_buffer EXCEPT ![p] =
                  @ \o Head(air[Other(p)]).bytes]
            /\ in_tag' = [in_tag EXCEPT ![p] = @ \o TagsOf(Head(air[Other(p)]))]
    /\ UNCHANGED << pc, script, paired, established, loss, last_sent_packet,
                    last_received_packet, turn_write, output_buffer, full_data,
                    result, res_tag, size, retries, batch_id, seq_tag, calls,
                    seq_at_call, txlog, wrote, got, got_id, last_ack, returned >>
    /\ UNCHANGED sessionVars
    /\ UNCHANGED << connVars, clean, threads >>

\* The acoustic channel loses a packet (noise, an undecodable frame).
Lose(p) ==
    /\ air[p] # << >>
    /\ loss > 0
    /\ air' = [air EXCEPT ![p] = Tail(@)]
    /\ loss' = loss - 1
    /\ clean' = FALSE
    /\ UNCHANGED threads
    /\ UNCHANGED << pc, script, paired, established, last_sent_packet, last_received_packet,
                    turn_write, input_buffer, in_tag, output_buffer, full_data,
                    result, res_tag, size, retries, batch_id, seq_tag, calls,
                    seq_at_call, txlog, wrote, got, got_id, last_ack, returned >>
    /\ UNCHANGED sessionVars
    /\ UNCHANGED connVars

-----------------------------------------------------------------------------
(* sender() / receiver(): connect, connect_init_*, key_exchange_* *)

\* sender() runs connect(True), receiver() runs connect(False).
IsSender(p) == p = "A"

\* A packet handed to stream.write outside write_insecure / read_insecure.
RawPacket(bytes, kind) == [bytes |-> bytes, kind |-> kind, w |-> 0]

Logged(p, bytes) == [from |-> p, bytes |-> bytes]

\* The entries of the log that peer p did not write.
NotFrom(log, p) == SelectSeq(log, LAMBDA e : e.from # p)

\* Faulty variant: the responder answers SYN with a plain SYN.
SynAckPlain(seq) == << seq, SYN >>

\* connect_init_receiver: struct.pack('<BB', self.last_sent_packet, self.SYN | self.ACK)
SynAck(seq) == << seq, SYN + ACK >>

\* Faulty variant: the reset leaves the sequence counters alone.
ResetSeqKeep(seq) == seq

\* connect_init_*: self.last_sent_packet = -1; self.last_received_packet = -1
ResetSeq(seq) == -1

\* The calls made in a session set up by connect: at most one message.
ConnectScripts ==
    { << >>, << SendOp(Message(ShortLength), 1) >>, << ReceiveOp(1) >> }

\* Both programs are started; the UI of each makes the calls of its script
\* once the session is established.  Either the channel loses packets and the
\* programs are watched for one connection attempt, or it corrupts up to
\* MaxGarble packets and they are watched for MaxAttempts attempts.
ConnectScenarios ==
    { [s |-> [p \in Peers |-> IF p = "A" THEN x.a ELSE x.b],
       loss |-> x.l, garble |-> x.g, runs |-> IF x.l > 0 THEN 1 ELSE MaxAttempts] :
        x \in { y \in [a : ConnectScripts, b : ConnectScripts,
                       l : 0..MaxLoss, g : 0..MaxGarble] :
                    /\ y.l = 0 \/ y.g = 0
                    /\ (y.l + y.g > 0 => IsPaired(y.a, y.b)) } }

\* The state after AlternativeStream(True / False) and ReliableTransceiver(stream)
\* have been constructed, on entry to connect.
InitConnect ==
    \E sc \in ConnectScenarios :
        /\ script = sc.s
        /\ paired = IsPaired(sc.s["A"], sc.s["B"])
        /\ established = FALSE
        /\ loss = sc.loss
        /\ garble = sc.garble
        /\ clean = TRUE
        /\ threads = NoThreads
        /\ pc = [p \in Peers |-> "connect"]
        /\ last_sent_packet = [p \in Peers |-> -1]
        /\ last_received_packet = [p \in Peers |-> -1]
        /\ turn_write = [p \in Peers |-> IsSender(p)]
        /\ input_buffer = [p \in Peers |-> << >>]
        /\ in_tag = [p \in Peers |-> << >>]
        /\ output_buffer = [p \in Peers |-> << >>]
        /\ air = [p \in Peers |-> << >>]
        /\ full_data = [p \in Peers |-> << >>]
        /\ result = [p \in Peers |-> << >>]
        /\ res_tag = [p \in Peers |-> << >>]
        /\ size = [p \in Peers |-> 0]
        /\ retries = [p \in Peers |-> 0]
        /\ batch_id = [p \in Peers |-> 0]
        /\ seq_tag = [p \in Peers |-> NoTag]
        /\ calls = [p \in Peers |-> 0]
        /\ seq_at_call = [p \in Peers |-> -1]
        /\ txlog = [p \in Peers |-> << >>]
        /\ wrote = [p \in Peers |-> << >>]
        /\ got = [p \in Peers |-> << >>]
        /\ got_id = [p \in Peers |-> << >>]
        /\ last_ack = [p \in Peers |-> [ack |-> << >>, tag |-> NoTag, dup |-> FALSE]]
        /\ returned = [p \in Peers |-> "none"]
        /\ session_key = [p \in Peers |-> [key |-> 0, ctr |-> 0, state |-> "none"]]
        /\ caller = [p \in Peers |-> "connect_init"]
        /\ data_chunks = [p \in Peers |-> << >>]
        /\ cipher_buffer = [p \in Peers |-> << >>]
        /\ left_size = [p \in Peers |-> 0]
        /\ sent_msgs = [p \in Peers |-> << >>]
        /\ recv_msgs = [p \in Peers |-> << >>]
        /\ enc_log = [p \in Peers |-> << >>]
        /\ runs = sc.runs
        /\ attempt = [p \in Peers |-> 0]
        /\ syn_retries = [p \in Peers |-> 0]
        /\ prev_packet_time = [p \in Peers |-> 0]
        /\ first_packet_time = [p \in Peers |-> 0]
        /\ stream_first_packet_time = [p \in Peers |-> 0]
        /\ kx_step = [p \in Peers |-> 0]
        /\ secret_key = [p \in Peers |-> 0]
        /\ in_session = [p \in Peers |-> FALSE]
        /\ conn_log = << >>

\* What write_insecure, read_insecure and the audio threads do not touch.
connFrame == << script, returned, session_key, data_chunks, cipher_buffer,
               left_size, sent_msgs, recv_msgs, enc_log >>

\* connect_init_sender 478-484, connect_init_receiver 525-531: the head of the
\* outer loop: clear both buffers, reset the counters and the times, turn to
\* WRITE (sender) or READ (receiver).
ConnectInit(p) ==
    /\ pc[p] = "connect"
    /\ attempt[p] < runs
    /\ input_buffer' = [input_buffer EXCEPT ![p] = << >>]
    /\ in_tag' = [in_tag EXCEPT ![p] = << >>]
    /\ output_buffer' = [output_buffer EXCEPT ![p] = << >>]
    /\ last_sent_packet' = [last_sent_packet EXCEPT ![p] = ResetSeq(@)]
    /\ last_received_packet' = [last_received_packet EXCEPT ![p] = ResetSeq(@)]
    /\ prev_packet_time' = [prev_packet_time EXCEPT ![p] = 0]
    /\ first_packet_time' = [first_packet_time EXCEPT ![p] = 0]
    /\ turn_write' = [turn_write EXCEPT ![p] = IsSender(p)]
    /\ syn_retries' = [syn_retries EXCEPT ![p] = IF IsSender(p) THEN SynRetries ELSE @]
    /\ attempt' = [attempt EXCEPT ![p] = @ + 1]
    /\ pc' = [pc EXCEPT ![p] = IF IsSender(p) THEN "ci_syn" ELSE "cr_wait"]
    /\ caller' = [caller EXCEPT ![p] = "connect_init"]
    /\ kx_step' = [kx_step EXCEPT ![p] = 0]
    /\ secret_key' = [secret_key EXCEPT ![p] = 0]
    /\ in_session' = [in_session EXCEPT ![p] = FALSE]
    /\ conn_log' = NotFrom(conn_log, p)
    /\ wrote' = [wrote EXCEPT ![p] = << >>]
    /\ got' = [got EXCEPT ![p] = << >>]
    /\ got_id' = [got_id EXCEPT ![p] = << >>]
    /\ UNCHANGED << script, paired, established, loss, air, full_data, result, res_tag,
                    size, retries, batch_id, seq_tag, calls, seq_at_call, txlog,
                    last_ack, returned, session_key, data_chunks, cipher_buffer,
                    left_size, sent_msgs, recv_msgs, enc_log, runs,
                    stream_first_packet_time, garble, clean, threads >>

\* connect_init_sender 488-492: note the time, turn WRITE, write SYN.
SendSyn(p) ==
    /\ pc[p] = "ci_syn"
    /\ prev_packet_time' = [prev_packet_time EXCEPT ![p] = attempt[p]]
    /\ turn_write' = [turn_write EXCEPT ![p] = TRUE]
    /\ output_buffer' = [output_buffer EXCEPT ![p] = Append(@, RawPacket(<< SYN >>, "SYN"))]
    /\ conn_log' = Append(conn_log, Logged(p, << SYN >>))
    /\ pc' = [pc EXCEPT ![p] = "ci_syn_out"]
    /\ UNCHANGED << paired, established, loss, last_sent_packet, last_received_packet,
                    input_buffer, in_tag, air, full_data, result, res_tag, size,
                    retries, batch_id, seq_tag, calls, seq_at_call, txlog, wrote,
                    got, got_id, last_ack, caller, runs, attempt, syn_retries,
                    first_packet_time, stream_first_packet_time, kx_step, secret_key,
                    in_session, garble, clean, threads >>
    /\ UNCHANGED connFrame

\* connect_init_sender 492-495: stream.write has returned; turn READ and call
\* read_insecure(1, abort_timeout=2.5, send_ack=False).
SynSent(p) ==
    /\ pc[p] = "ci_syn_out"
    /\ output_buffer[p] = << >>
    /\ ReadCall(p, 1)
    /\ UNCHANGED << caller, clean, threads >>
    /\ UNCHANGED connVars
    /\ UNCHANGED connFrame

\* connect_init_sender 501-518: read_insecure has returned (ack, data).  On
\* SYN|ACK publish first_packet_time and write the ACK; otherwise sleep, count
\* the retry and send SYN again, or start over when the retries are used up.
CiResponse(p) ==
    /\ pc[p] = "ci_response"
    /\ IF result[p][1] # SYN + ACK
       THEN /\ syn_retries' = [syn_retries EXCEPT ![p] = @ - 1]
            /\ pc' = [pc EXCEPT ![p] = IF syn_retries[p] - 1 >= 0 THEN "ci_syn" ELSE "connect"]
            /\ UNCHANGED << first_packet_time, stream_first_packet_time, turn_write,
                            output_buffer, conn_log >>
       ELSE /\ first_packet_time' = [first_packet_time EXCEPT ![p] = prev_packet_time[p]]
            /\ stream_first_packet_time' =
                  [stream_first_packet_time EXCEPT ![p] = prev_packet_time[p]]
            /\ turn_write' = [turn_write EXCEPT ![p] = TRUE]
            /\ output_buffer' = [output_buffer EXCEPT ![p] =
                  Append(@, AckPacket(batch_id[p], last_received_packet[p], 0))]
            /\ conn_log' = Append(conn_log,
                  Logged(p, AckBytes(batch_id[p], last_received_packet[p])))
            /\ pc' = [pc EXCEPT ![p] = "ci_ack_out"]
            /\ UNCHANGED syn_retries
    /\ UNCHANGED << paired, established, loss, last_sent_packet, last_received_packet,
                    input_buffer, in_tag, air, full_data, result, res_tag, size,
                    retries, batch_id, seq_tag, calls, seq_at_call, txlog, wrote,
                    got, got_id, last_ack, caller, runs, attempt, prev_packet_time,
                    kx_step, secret_key, in_session, garble, clean, threads >>
    /\ UNCHANGED connFrame

\* connect_init_sender returns; key_exchange_sender 564-566: generate a key
\* pair and write the public key.
CiDone(p) ==
    /\ pc[p] = "ci_ack_out"
    /\ output_buffer[p] = << >>
    /\ WriteCall(p, PublicKey(p, attempt[p]))
    /\ conn_log' = Append(conn_log,
          Logged(p, << NextSentSeq(last_sent_packet[p]) >> \o PublicKey(p, attempt[p])))
    /\ caller' = [caller EXCEPT ![p] = "key_exchange"]
    /\ kx_step' = [kx_step EXCEPT ![p] = 1]
    /\ secret_key' = [secret_key EXCEPT ![p] = SecretKey(p, attempt[p])]
    /\ UNCHANGED << runs, attempt, syn_retries, prev_packet_time, first_packet_time,
                    stream_first_packet_time, in_session, garble, clean, threads >>
    /\ UNCHANGED connFrame

\* connect_init_receiver, the answer to a missing or wrong ACK: count the
\* retry and write SYN|ACK again, or start over when the retries are used up.
CrRetry(p) ==
    /\ syn_retries' = [syn_retries EXCEPT ![p] = @ - 1]
    /\ IF syn_retries[p] - 1 >= 0
       THEN /\ turn_write' = [turn_write EXCEPT ![p] = TRUE]
            /\ output_buffer' = [output_buffer EXCEPT ![p] =
                  Append(@, RawPacket(SynAck(last_sent_packet[p]), "SYNACK"))]
            /\ conn_log' = Append(conn_log, Logged(p, SynAck(last_sent_packet[p])))
            /\ pc' = [pc EXCEPT ![p] = "cr_synack_out"]
       ELSE /\ pc' = [pc EXCEPT ![p] = "connect"]
            /\ UNCHANGED << turn_write, output_buffer, conn_log >>

\* connect_init_receiver 533-548: the blocking stream.read(1) returns a byte.
\* Anything but SYN starts the outer loop again; on SYN take seq 0 and write
\* SYN|ACK.
CrSyn(p) ==
    /\ pc[p] = "cr_wait"
    /\ input_buffer[p] # << >>
    /\ input_buffer' = [input_buffer EXCEPT ![p] = Tail(@)]
    /\ in_tag' = [in_tag EXCEPT ![p] = Tail(@)]
    /\ IF Head(input_buffer[p]) # SYN
       THEN /\ pc' = [pc EXCEPT ![p] = "connect"]
            /\ UNCHANGED << prev_packet_time, syn_retries, last_sent_packet, turn_write,
                            output_buffer, conn_log >>
       ELSE /\ prev_packet_time' = [prev_packet_time EXCEPT ![p] = attempt[p]]
            /\ syn_retries' = [syn_retries EXCEPT ![p] = SynRetries]
            /\ last_sent_packet' = [last_sent_packet EXCEPT ![p] = @ + 1]
            /\ turn_write' = [turn_write EXCEPT ![p] = TRUE]
            /\ output_buffer' = [output_buffer EXCEPT ![p] =
                  Append(@, RawPacket(SynAck(last_sent_packet[p] + 1), "SYNACK"))]
            /\ conn_log' = Append(conn_log, Logged(p, SynAck(last_sent_packet[p] + 1)))
            /\ pc' = [pc EXCEPT ![p] = "cr_synack_out"]
    /\ UNCHANGED << paired, established, loss, last_received_packet, air, full_data,
                    result, res_tag, size, retries, batch_id, seq_tag, calls,
                    seq_at_call, txlog, wrote, got, got_id, last_ack, caller,
                    runs, attempt, first_packet_time, stream_first_packet_time, kx_step, secret_key,
                    in_session, garble, clean, threads >>
    /\ UNCHANGED connFrame

\* connect_init_receiver 549-553, read_equals 227-230: stream.write has
\* returned; turn READ and start to wait for the ACK.
CrSynAckSent(p) ==
    /\ pc[p] = "cr_synack_out"
    /\ output_buffer[p] = << >>
    /\ turn_write' = TurnRead(turn_write, p)
    /\ result' = [result EXCEPT ![p] = << >>]
    /\ res_tag' = [res_tag EXCEPT ![p] = << >>]
    /\ pc' = [pc EXCEPT ![p] = "cr_ack_wait"]
    /\ UNCHANGED << paired, established, loss, last_sent_packet, last_received_packet,
                    input_buffer, in_tag, output_buffer, air, full_data, size,
                    retries, batch_id, seq_tag, calls, seq_at_call, txlog, wrote,
                    got, got_id, last_ack, caller, clean, threads >>
    /\ UNCHANGED connVars
    /\ UNCHANGED connFrame

\* read_equals 232-251 and connect_init_receiver 553-559: one poll that finds
\* bytes.  Two bytes equal to [last_sent_packet][ACK] end the handshake; two
\* other bytes, or more than two, count as a failure.
CrReadAck(p) ==
    /\ pc[p] = "cr_ack_wait"
    /\ input_buffer[p] # << >>
    /\ LET expected == << last_sent_packet[p], ACK >>
           res == result[p] \o ReadData(input_buffer[p], Len(expected))
       IN /\ input_buffer' = [input_buffer EXCEPT ![p] = ReadRest(@, Len(expected))]
          /\ in_tag' = [in_tag EXCEPT ![p] = ReadRest(@, Len(expected))]
          /\ result' = [result EXCEPT ![p] = res]
          /\ res_tag' = [res_tag EXCEPT ![p] = @ \o ReadData(in_tag[p], Len(expected))]
          /\ IF Len(res) < Len(expected)
             THEN UNCHANGED << pc, syn_retries, turn_write, output_buffer, conn_log,
                               first_packet_time, stream_first_packet_time >>
             ELSE IF res = expected
             THEN /\ first_packet_time' =
                        [first_packet_time EXCEPT ![p] = prev_packet_time[p]]
                  /\ stream_first_packet_time' =
                        [stream_first_packet_time EXCEPT ![p] = prev_packet_time[p]]
                  /\ pc' = [pc EXCEPT ![p] = "cr_done"]
                  /\ UNCHANGED << syn_retries, turn_write, output_buffer, conn_log >>
             ELSE /\ CrRetry(p)
                  /\ UNCHANGED << first_packet_time, stream_first_packet_time >>
    /\ UNCHANGED << paired, established, loss, last_sent_packet, last_received_packet,
                    air, full_data, size, retries, batch_id, seq_tag, calls,
                    seq_at_call, txlog, wrote, got, got_id, last_ack, caller,
                    runs, attempt, prev_packet_time, kx_step, secret_key, in_session, garble, clean, threads >>
    /\ UNCHANGED connFrame

\* read_equals 235-236: reconnect_interval has elapsed without two bytes.
CrAckTimeout(p) ==
    /\ pc[p] = "cr_ack_wait"
    /\ Quiet
    /\ CrRetry(p)
    /\ UNCHANGED << paired, established, loss, last_sent_packet, last_received_packet,
                    input_buffer, in_tag, air, full_data, result, res_tag, size,
                    retries, batch_id, seq_tag, calls, seq_at_call, txlog, wrote,
                    got, got_id, last_ack, caller, runs, attempt, prev_packet_time,
                    first_packet_time, stream_first_packet_time, kx_step, secret_key,
                    in_session, garble, clean, threads >>
    /\ UNCHANGED connFrame

\* connect_init_receiver returns; key_exchange_receiver 593-594: generate a
\* key pair and read the peer's public key.
CrDone(p) ==
    /\ pc[p] = "cr_done"
    /\ ReadCall(p, PublicKeySize)
    /\ caller' = [caller EXCEPT ![p] = "key_exchange"]
    /\ kx_step' = [kx_step EXCEPT ![p] = 1]
    /\ secret_key' = [secret_key EXCEPT ![p] = SecretKey(p, attempt[p])]
    /\ UNCHANGED << runs, attempt, syn_retries, prev_packet_time, first_packet_time,
                    stream_first_packet_time, in_session, conn_log, garble, clean, threads >>
    /\ UNCHANGED connFrame

\* The size of the read_insecure call that follows step n of the key exchange.
KxReadSize(p, n) ==
    IF IsSender(p)
    THEN (IF n = 1 THEN PublicKeySize ELSE nonce_size + Len(Hi))
    ELSE (IF n = 2 THEN nonce_size + Len(Hello) ELSE nonce_size + 1)

\* key_exchange_sender 566, 576 and key_exchange_receiver 603, 611: the
\* write_insecure call has returned; read the peer's next message.
KxNextRead(p) ==
    /\ pc[p] = "kx_loop"
    /\ kx_step[p] \in (IF IsSender(p) THEN {1, 3} ELSE {2, 4})
    /\ ReadCall(p, KxReadSize(p, kx_step[p]))
    /\ kx_step' = [kx_step EXCEPT ![p] = @ + 1]
    /\ UNCHANGED << caller, secret_key, runs, attempt, syn_retries, prev_packet_time, first_packet_time,
                    stream_first_packet_time, in_session, conn_log, garble, clean, threads >>
    /\ UNCHANGED connFrame

\* The session key in use after step n: born from the peer's public key.
KxKey(p, n) ==
    IF n = (IF IsSender(p) THEN 2 ELSE 1)
    THEN GetSymkey(p, attempt[p], result[p])
    ELSE session_key[p]

\* The plaintext a peer expects at step n of the key exchange (none where it
\* has read a public key).
KxExpected(p, n) ==
    IF IsSender(p) THEN (IF n = 4 THEN Hi ELSE << >>)
    ELSE (IF n = 3 THEN Hello ELSE IF n = 5 THEN << ACK >> ELSE << >>)

\* assert decrypted == ...: does the message read at step n pass?
KxAccepts(p, n) ==
    \/ KxExpected(p, n) = << >>
    \/ Decrypt(session_key[p], result[p]) = KxExpected(p, n)

\* The plaintext a peer encrypts after step n (none for the public key).
KxPlaintext(p, n) ==
    IF IsSender(p) THEN (IF n = 2 THEN Hello ELSE << ACK >>)
    ELSE (IF n = 3 THEN Hi ELSE << >>)

\* key_exchange_sender 567-583 and key_exchange_receiver 595-609: the
\* read_insecure call has returned.  Derive the session key from the public
\* key, or check the decrypted hello; then write the next message.  A failed
\* assert ends the program with AssertionError; python -O compiles the
\* asserts away.
KxNextWrite(p) ==
    /\ pc[p] = "kx_loop"
    /\ kx_step[p] \in (IF IsSender(p) THEN {2, 4} ELSE {1, 3})
    /\ \E asserts \in BOOLEAN :
          IF asserts /\ ~KxAccepts(p, kx_step[p])
          THEN /\ pc' = [pc EXCEPT ![p] = "crashed"]
               /\ UNCHANGED << paired, established, loss, last_sent_packet,
                               last_received_packet, turn_write, input_buffer, in_tag,
                               output_buffer, air, full_data, result, res_tag, size,
                               retries, batch_id, seq_tag, calls, seq_at_call, txlog,
                               wrote, got, got_id, last_ack, session_key, enc_log,
                               kx_step, secret_key, conn_log >>
          ELSE LET sk == KxKey(p, kx_step[p])
                   plain == KxPlaintext(p, kx_step[p])
                   data == IF plain = << >> THEN PublicKey(p, attempt[p])
                                            ELSE Encrypt(sk, plain)
               IN /\ WriteCall(p, data)
                  /\ session_key' = [session_key EXCEPT ![p] =
                        IF plain = << >> THEN sk ELSE NonceUsed(sk)]
                  /\ enc_log' = [enc_log EXCEPT ![p] =
                        IF plain = << >> THEN @ ELSE Append(@, Encryption(sk))]
                  /\ conn_log' = Append(conn_log,
                        Logged(p, << NextSentSeq(last_sent_packet[p]) >> \o data))
                  /\ kx_step' = [kx_step EXCEPT ![p] = @ + 1]
                  /\ secret_key' = [secret_key EXCEPT ![p] =
                        IF kx_step[p] = (IF IsSender(p) THEN 2 ELSE 1)
                        THEN SecretAfterSymkey(@, IsSender(p)) ELSE @]
    /\ UNCHANGED << script, returned, caller, data_chunks, cipher_buffer, left_size,
                    sent_msgs, recv_msgs, runs, attempt, syn_retries, prev_packet_time,
                    first_packet_time, stream_first_packet_time, in_session,
                    garble, clean, threads >>

\* key_exchange_sender 583-587 and key_exchange_receiver 611-617: the last
\* call has returned (the receiver checks the decrypted ACK byte);
\* 'Connection established', session_start.
KxEstablished(p) ==
    /\ pc[p] = "kx_loop"
    /\ kx_step[p] = 5
    /\ \E asserts \in BOOLEAN :
          IF asserts /\ ~KxAccepts(p, kx_step[p])
          THEN /\ pc' = [pc EXCEPT ![p] = "crashed"]
               /\ UNCHANGED << caller, in_session >>
          ELSE /\ pc' = [pc EXCEPT ![p] = "idle"]
               /\ caller' = [caller EXCEPT ![p] = "app"]
               /\ in_session' = [in_session EXCEPT ![p] = TRUE]
    /\ UNCHANGED << paired, established, loss, last_sent_packet, last_received_packet,
                    turn_write, input_buffer, in_tag, output_buffer, air, full_data,
                    result, res_tag, size, retries, batch_id, seq_tag, calls,
                    seq_at_call, txlog, wrote, got, got_id, last_ack, runs, attempt,
                    syn_retries, prev_packet_time, first_packet_time,
                    stream_first_packet_time, kx_step, secret_key, conn_log, garble, clean, threads >>
    /\ UNCHANGED connFrame

\* session_start returns (the UI is closed once its calls are made);
\* key_exchange_* 589 / 619: dispose of the session key; connect 635: call
\* read_insecure(1).
SessionEnd(p) ==
    /\ pc[p] = "idle"
    /\ in_session[p]
    /\ script[p] = << >>
    /\ session_key' = [session_key EXCEPT ![p] = Dispose(@)]
    /\ ReadCall(p, 1)
    /\ caller' = [caller EXCEPT ![p] = "connect"]
    /\ UNCHANGED << script, returned, data_chunks, cipher_buffer, left_size, sent_msgs,
                    recv_msgs, enc_log, runs, attempt, syn_retries, prev_packet_time,
                    first_packet_time, stream_first_packet_time, kx_step, secret_key, in_session,
                    conn_log, garble, clean, threads >>

\* connect 640: time.sleep(15.0) is over; the loop of connect starts again.
AfterSleep(p) ==
    /\ pc[p] = "after_sleep"
    /\ Quiet
    /\ pc' = [pc EXCEPT ![p] = "connect"]
    /\ UNCHANGED << paired, established, loss, last_sent_packet, last_received_packet,
                    turn_write, input_buffer, in_tag, output_buffer, air, full_data,
                    result, res_tag, size, retries, batch_id, seq_tag, calls,
                    seq_at_call, txlog, wrote, got, got_id, last_ack, caller, clean, threads >>
    /\ UNCHANGED connVars
    /\ UNCHANGED connFrame

\* ConnectionAbortedError is caught: by connect_init_sender 496-499 (retries =
\* -1, the outer loop starts again), by connect 636-638 (continue), or by
\* sender / receiver 659-663, 681-685, which call connect again.
Unwind(p) ==
    /\ pc[p] \in ConnectionAborted
    /\ pc' = [pc EXCEPT ![p] = "connect"]
    /\ syn_retries' = [syn_retries EXCEPT ![p] =
          IF caller[p] = "connect_init" THEN -1 ELSE @]
    /\ UNCHANGED << paired, established, loss, last_sent_packet, last_received_packet,
                    turn_write, input_buffer, in_tag, output_buffer, air, full_data,
                    result, res_tag, size, retries, batch_id, seq_tag, calls,
                    seq_at_call, txlog, wrote, got, got_id, last_ack, caller,
                    runs, attempt, prev_packet_time, first_packet_time,
                    stream_first_packet_time, kx_step, secret_key, in_session, conn_log,
                    garble, clean, threads >>
    /\ UNCHANGED connFrame

\* The acoustic channel corrupts a DATA or SYN|ACK packet beyond what the
\* error correction repairs: the first byte of its payload arrives changed.
Garble(p) ==
    /\ air[p] # << >>
    /\ garble > 0
    /\ Head(air[p]).kind \in {"DATA", "SYNACK"}
    /\ air' = [air EXCEPT ![p] =
          << [Head(@) EXCEPT !.bytes = [@ EXCEPT ![2] = (@ + 1) % 256]] >> \o Tail(@)]
    /\ garble' = garble - 1
    /\ clean' = FALSE
    /\ UNCHANGED threads
    /\ UNCHANGED << pc, paired, established, loss, last_sent_packet, last_received_packet,
                    turn_write, input_buffer, in_tag, output_buffer, full_data,
                    result, res_tag, size, retries, batch_id, seq_tag, calls,
                    seq_at_call, txlog, wrote, got, got_id, last_ack, caller,
                    runs, attempt, syn_retries, prev_packet_time, first_packet_time,
                    stream_first_packet_time, kx_step, secret_key, in_session, conn_log >>
    /\ UNCHANGED connFrame

-----------------------------------------------------------------------------
(* Specifications *)

Transport(p) ==
    \/ StartWrite(p)
    \/ WriteSent(p)
    \/ WaitConfirmation(p)
    \/ ResendOnTimeout(p)
    \/ ResendDone(p)
    \/ StartRead(p)
    \/ ReadSeq(p)
    \/ DuplicateAck(p)
    \/ DuplicateAckSent(p)
    \/ ReadPayload(p)
    \/ ReadReturn(p)
    \/ ReadTimeout(p)
    \/ Send(p)
    \/ SendLoop(p)
    \/ Receive(p)
    \/ ReceiveFirst(p)
    \/ ReceiveTimeout(p)
    \/ ReceiveLoop(p)

NextLossless == \E p \in Peers : Transport(p) \/ SpeakerWrite(p) \/ MicRead(p)

Next == NextLossless \/ \E p \in Peers : Lose(p)

Init == InitOf(Scenarios)

\* The same, and the scenarios in which a call is made late.
InitLate == InitOf(Scenarios \cup LateScenarios)

InitLossless == Init /\ loss = 0

\* The lossy channel.
Spec == Init /\ [][Next]_vars

\* The lossless channel: no packet is lost in the air.
SpecLossless == InitLossless /\ [][NextLossless]_vars

\* The lossy channel and an application that may make a call late.
SpecLate == InitLate /\ [][Next]_vars

-----------------------------------------------------------------------------
(* The two programs, sender() and receiver(), from their start *)

Connection(p) ==
    \/ ConnectInit(p)
    \/ SendSyn(p)
    \/ SynSent(p)
    \/ CiResponse(p)
    \/ CiDone(p)
    \/ CrSyn(p)
    \/ CrSynAckSent(p)
    \/ CrReadAck(p)
    \/ CrAckTimeout(p)
    \/ CrDone(p)
    \/ KxNextRead(p)
    \/ KxNextWrite(p)
    \/ KxEstablished(p)
    \/ SessionEnd(p)
    \/ AfterSleep(p)
    \/ Unwind(p)

\* write_insecure, read_insecure, send and receive as connect and the UI call them.
Called(p) ==
    \/ WriteSent(p)
    \/ WaitConfirmation(p)
    \/ ResendOnTimeout(p)
    \/ ResendDone(p)
    \/ ReadSeq(p)
    \/ DuplicateAck(p)
    \/ DuplicateAckSent(p)
    \/ ReadPayload(p)
    \/ ReadReturn(p)
    \/ ReadTimeout(p)
    \/ Send(p)
    \/ SendLoop(p)
    \/ Receive(p)
    \/ ReceiveFirst(p)
    \/ ReceiveTimeout(p)
    \/ ReceiveLoop(p)

NextConnect ==
    \E p \in Peers :
        \/ Connection(p)
        \/ Called(p)
        \/ SpeakerWrite(p)
        \/ MicRead(p)
        \/ Lose(p)
        \/ Garble(p)

SpecConnect == InitConnect /\ [][NextConnect]_vars

-----------------------------------------------------------------------------
(* The transport under fair scheduling *)

\* resend_timeout (3 s) is shorter than abort_timeout (15 s): while a peer
\* waits for a confirmation its resend timer expires before the other peer's
\* read gives up.
PatientReadTimeout(p) ==
    /\ \A q \in Peers : pc[q] # "w_wait"
    /\ ReadTimeout(p)

TransportTimed(p) ==
    \/ StartWrite(p)
    \/ WriteSent(p)
    \/ WaitConfirmation(p)
    \/ ResendOnTimeout(p)
    \/ ResendDone(p)
    \/ StartRead(p)
    \/ ReadSeq(p)
    \/ DuplicateAck(p)
    \/ DuplicateAckSent(p)
    \/ ReadPayload(p)
    \/ ReadReturn(p)
    \/ PatientReadTimeout(p)

NextTimed ==
    \E p \in Peers : TransportTimed(p) \/ SpeakerWrite(p) \/ MicRead(p) \/ Lose(p)

\* Fresh transceivers whose write_insecure and read_insecure calls are paired,
\* fewer than MaxOps on each peer, or a single call that no call of the peer
\* matches.
InitTimed ==
    /\ Init
    /\ ~established
    /\ \/ paired /\ Len(script["A"]) < MaxOps
       \/ Len(script["A"]) + Len(script["B"]) = 1
    /\ \A p \in Peers : \A i \in 1..Len(script[p]) : script[p][i].n = 1

\* Every thread keeps running: the transport thread, the speaker writer and
\* the mic reader of each peer.  The channel is not obliged to lose packets.
SpecTimed ==
    /\ InitTimed
    /\ [][NextTimed]_vars
    /\ \A p \in Peers :
          /\ WF_vars(TransportTimed(p))
          /\ WF_vars(SpeakerWrite(p))
          /\ WF_vars(MicRead(p))

-----------------------------------------------------------------------------
(* Properties *)

IsPrefix(s, t) == Len(s) <= Len(t) /\ s = SubSeq(t, 1, Len(s))

\* Every call of both scripts has returned.
Done == \A p \in Peers : pc[p] = "idle" /\ script[p] = << >>

\* write_insecure has returned normally and no new call has begun.
WriteReturned(p) == pc[p] \in {"idle", "s_loop"} /\ returned[p] = "write"

\* The tags of the two bytes of the ACK that answers call w with seq.
AckTags(seq, w) ==
    << [k |-> "ACK", o |-> 0, s |-> seq, w |-> w],
       [k |-> "ACK", o |-> 1, s |-> seq, w |-> w] >>

\* The newest element of s, unless 0, occurs nowhere earlier in s.  s only
\* grows by Append, so as an invariant this says that s never repeats.
NewestIsNew(s) ==
    \A i \in 1..(Len(s) - 1) : s[Len(s)] # 0 => s[i] # s[Len(s)]

\* C1: on a lossless channel, when the write_insecure calls of one peer are
\* paired with read_insecure calls of the same lengths on the other, no call
\* aborts, the payloads read are the payloads written, in order and once
\* each, and when all calls have returned every payload has been read.
C1_PairedDelivery ==
    paired =>
        \A p \in Peers :
            /\ pc[p] \notin AbortedPcs
            /\ IsPrefix(got[Other(p)], wrote[p])
            /\ Done => got[Other(p)] = wrote[p]

\* C2: on a lossless channel, in an established session, when every send on
\* one peer is matched by a receive on the other, no call aborts, the
\* plaintexts received are the plaintexts sent, in order, and when all calls
\* have returned every plaintext has been received.
C2_SessionRoundTrip ==
    (paired /\ established) =>
        \A p \in Peers :
            /\ pc[p] \notin AbortedPcs
            /\ IsPrefix(recv_msgs[Other(p)], sent_msgs[p])
            /\ Done => recv_msgs[Other(p)] = sent_msgs[p]

\* C3: write_insecure returns normally only on the two bytes of an ACK packet
\* that the peer emitted for this call's seq: [last_sent_packet][ACK].
C3_ReturnOnlyOnPeerAck ==
    \A p \in Peers :
        WriteReturned(p) => res_tag[p] = AckTags(last_sent_packet[p], calls[p])

\* C4: the ACK read_insecure emits for a DATA packet is [seq of that packet][ACK],
\* for an in-sequence packet and for a duplicate alike.
C4_AckEchoesSeq ==
    \A p \in Peers :
        DataCall(last_ack[p].tag) # 0 =>
            last_ack[p].ack = << last_ack[p].tag.s, ACK >>

\* C4 witness: a duplicate DATA packet has been answered with an ACK.
C4_DuplicateAcked ==
    \E p \in Peers : DataCall(last_ack[p].tag) # 0 /\ last_ack[p].dup

\* C5: last_received_packet stays an 8-bit value, and a DATA packet that was
\* never delivered (the one with seq 0 after 256 accepted packets) is not
\* taken for a duplicate.
C5_ReceivedSeqWraps ==
    \A p \in Peers :
        /\ last_received_packet[p] < SeqModulus
        /\ (pc[p] = "r_dup_sleep" /\ DataCall(seq_tag[p]) # 0) =>
               \E i \in 1..Len(got_id[p]) : got_id[p][i] = DataCall(seq_tag[p])

\* C6: a write_insecure call increments last_sent_packet exactly once, modulo
\* 256, and nothing else changes it; every transmission of the call, the
\* retransmissions included, carries the same bytes: that seq and the payload.
C6_OneSeqPerCall ==
    \A p \in Peers :
        /\ calls[p] = 0 => last_sent_packet[p] = seq_at_call[p]
        /\ calls[p] > 0 =>
               /\ last_sent_packet[p] = (seq_at_call[p] + 1) % SeqModulus
               /\ last_sent_packet[p] \in 0..(SeqModulus - 1)
        /\ \A i \in 1..Len(txlog[p]) :
               txlog[p][i] = << last_sent_packet[p] >> \o wrote[p][Len(wrote[p])]

\* C6 witness: the second call of a peer has retransmitted at least twice.
C6_SecondCallRetransmits ==
    \E p \in Peers : Len(txlog[p]) >= 3 /\ calls[p] = 2 /\ pc[p] = "w_wait"

\* C7: a seq lower than expected is answered with an ACK of that seq, leaves
\* last_received_packet and the payloads delivered unchanged, and the call
\* keeps waiting; a DATA packet that was accepted is never delivered again.
C7_DuplicateNotRedelivered ==
    /\ [](\A p \in Peers :
            /\ pc[p] \in {"r_dup_sleep", "r_dup_ack"} =>
                   batch_id[p] < last_received_packet[p]
            /\ pc[p] = "r_dup_ack" =>
                   last_ack[p].ack = << batch_id[p], ACK >> /\ last_ack[p].dup
            /\ NewestIsNew(got_id[p]))
    /\ [][\A p \in Peers :
            /\ pc[p] \in {"r_dup_sleep", "r_dup_ack"} =>
                   /\ last_received_packet'[p] = last_received_packet[p]
                   /\ got'[p] = got[p]
            /\ pc[p] = "r_dup_sleep" => pc'[p] \in {"r_dup_sleep", "r_dup_ack"}
            /\ pc[p] = "r_dup_ack" => pc'[p] \in {"r_dup_ack", "r_seq"}]_vars

\* C7 witness: a retransmission of a DATA packet already delivered is being
\* answered as a duplicate.
C7_RetransmissionAnswered ==
    \E p \in Peers :
        /\ pc[p] = "r_dup_ack"
        /\ DataCall(seq_tag[p]) # 0
        /\ \E i \in 1..Len(got_id[p]) : got_id[p][i] = DataCall(seq_tag[p])

\* C8: a seq greater than expected aborts read_insecure: no ACK is written for
\* it and no payload is delivered; a payload is read only behind the expected seq.
C8_AheadAborts ==
    /\ [](\A p \in Peers :
            /\ pc[p] \in {"r_data", "r_ack"} => batch_id[p] = last_received_packet[p]
            /\ pc[p] = "aborted_skew" =>
                   /\ batch_id[p] > last_received_packet[p]
                   /\ output_buffer[p] = << >>
                   /\ ~turn_write[p])
    /\ [][\A p \in Peers :
            /\ (pc[p] = "r_seq" /\ Len(input_buffer'[p]) < Len(input_buffer[p])
                    /\ Head(input_buffer[p]) > last_received_packet[p]) =>
                   pc'[p] = "aborted_skew"
            /\ pc'[p] = "aborted_skew" =>
                   /\ got'[p] = got[p]
                   /\ output_buffer'[p] = output_buffer[p]
                   /\ last_ack'[p] = last_ack[p]
                   /\ turn_write'[p] = turn_write[p]]_vars

\* C8 witness: read_insecure has aborted on a seq greater than expected.
C8_AbortedOnAhead ==
    \E p \in Peers : pc[p] = "aborted_skew" /\ batch_id[p] > last_received_packet[p]

\* C9: write_insecure aborts exactly when retries reaches abort_retries, so it
\* transmits at most 1 + abort_retries times, and it does not return normally
\* unless it has read [last_sent_packet][ACK].
C9_AbortAfterRetries ==
    \A p \in Peers :
        /\ Len(txlog[p]) <= 1 + abort_retries
        /\ pc[p] \in InWrite =>
               /\ retries[p] < abort_retries
               /\ Len(txlog[p]) <= 1 + retries[p] + 1
        /\ pc[p] = "aborted_retries" =>
               /\ retries[p] = abort_retries
               /\ Len(txlog[p]) = 1 + abort_retries
        /\ WriteReturned(p) => result[p] = << last_sent_packet[p], ACK >>

\* C9 witness: a call that never read a byte of response has aborted.
C9_AbortedUnanswered ==
    \E p \in Peers : pc[p] = "aborted_retries" /\ result[p] = << >>

\* C10: after a wrong 2-byte response and the retransmission it causes,
\* write_insecure waits for a fresh 2-byte response: while it polls, the
\* bytes it holds and the bytes it still wants add up to 2, and it wants some.
C10_FreshResponseAfterFailure ==
    \A p \in Peers :
        pc[p] = "w_wait" => size[p] > 0 /\ size[p] + Len(result[p]) = 2

\* The ACK of p's current DATA packet was lost after the peer delivered the
\* payload, and the peer's next call is read_insecure.
AckLost(p) ==
    LET q == Other(p)
    IN /\ pc[p] = "w_wait"
       /\ retries[p] = 0
       /\ result[p] = << >>
       /\ \A r \in Peers :
             air[r] = << >> /\ output_buffer[r] = << >> /\ input_buffer[r] = << >>
       /\ got_id[q] # << >>
       /\ got_id[q][Len(got_id[q])] = calls[p]
       /\ \/ pc[q] = "r_seq" /\ last_received_packet[q] = last_sent_packet[p] + 1
          \/ /\ pc[q] = "idle"
             /\ script[q] # << >>
             /\ Head(script[q]).op = "read"
             /\ last_received_packet[q] = last_sent_packet[p]

\* How often x occurs in s.
Occurrences(s, x) == Cardinality({i \in 1..Len(s) : s[i] = x})

\* p's write_insecure has returned on the ACK the peer wrote for the
\* retransmitted packet, and the peer holds the payload once.
RecoveredWrite(p) ==
    LET q == Other(p)
    IN /\ WriteReturned(p)
       /\ retries[p] >= 1
       /\ res_tag[p] = AckTags(last_sent_packet[p], calls[p])
       /\ last_ack[q].dup
       /\ last_ack[q].ack = << last_sent_packet[p], ACK >>
       /\ Occurrences(got_id[q], calls[p]) = 1

\* C11: when the ACK for DATA(s) is lost after the payload was delivered and
\* the receiver goes on to read_insecure, the sender retransmits DATA(s), the
\* receiver answers ACK(s), the sender's write_insecure returns normally and
\* the payload is not delivered a second time.
C11_LostAckRecovered ==
    \A p \in Peers : AckLost(p) ~> RecoveredWrite(p)

\* C11 witness: a write_insecure has returned after the loss of its first ACK.
C11_ReturnedAfterLostAck ==
    \E p \in Peers : RecoveredWrite(p) /\ loss < MaxLoss

\* C12: on a channel that loses finitely many packets, fewer than the retry
\* budget covers, with write_insecure / read_insecure calls paired in either
\* direction, every payload passed to write_insecure is in the end returned
\* by the peer's read_insecure, once and in order - also when a peer turns to
\* write_insecure right after a read_insecure whose ACK was lost.
C12_LossyPairedDelivery ==
    paired => <>[](\A p \in Peers : got[Other(p)] = wrote[p])

-----------------------------------------------------------------------------
(* The connection: handshake and key exchange *)

\* connect_init_sender / connect_init_receiver has returned in this attempt.
HandshakeReturned(p) == kx_step[p] >= 1 \/ pc[p] = "cr_done"

\* The handshake of the protocol: SYN, SYN|ACK with seq 0, ACK of seq 0.
HandshakePackets ==
    << Logged("A", << 1 >>), Logged("B", << 0, 3 >>), Logged("A", << 0, 2 >>) >>

\* The packets connect_init_* handed to stream.write (key-exchange packets are longer).
HandshakeLog == SelectSeq(conn_log, LAMBDA e : Len(e.bytes) <= 2)

\* Both programs are in their first connection attempt since they started.
FirstAttempt == \A p \in Peers : attempt[p] <= 1

KeyExchangeLog == SelectSeq(conn_log, LAMBDA e : Len(e.bytes) > 2)

\* The writer and the payload size of each logged key-exchange message.
KeyExchangeShape ==
    [i \in 1..Len(KeyExchangeLog) |->
        << KeyExchangeLog[i].from, Len(KeyExchangeLog[i].bytes) - 1 >>]

\* The key exchange of the protocol: the public keys of initiator and
\* responder, then the ciphertexts of 'Hello', 'Hi' and the ACK byte.
KeyExchangeMessages ==
    << << "A", 32 >>, << "B", 32 >>, << "A", 13 >>, << "B", 10 >>, << "A", 9 >> >>

\* C14: in the first connection attempt, while the channel has lost and
\* corrupted nothing, the key-exchange messages are written in this order:
\* the initiator's 32-byte public key, the responder's 32-byte public key,
\* the initiator's 13-byte ciphertext, the responder's 10-byte ciphertext, the
\* initiator's 9-byte ciphertext; each is written only after the one before
\* it has been read and acknowledged; every DATA carries the seq its reader
\* expects (the seq byte that read_insecure takes from a key-exchange DATA is
\* the one it expects); and when both sides have declared the connection
\* established, the keys under which they encrypted 'Hello' and 'Hi' are
\* equal and are the session keys they hold while their sessions last.
C14_KeyExchange ==
    /\ [](clean /\ FirstAttempt =>
            /\ IsPrefix(KeyExchangeShape, KeyExchangeMessages)
            /\ Len(KeyExchangeLog) <= Len(got["A"]) + Len(got["B"]) + 1
            /\ (\A p \in Peers : in_session[p]) =>
                  /\ KeyExchangeShape = KeyExchangeMessages
                  /\ enc_log["A"][1].key = enc_log["B"][1].key
                  /\ \A p \in Peers :
                        session_key[p].state = "live" =>
                            session_key[p].key = enc_log[p][1].key)
    /\ [][\A p \in Peers :
            /\ clean /\ FirstAttempt /\ caller[p] = "key_exchange"
            /\ pc[p] = "r_seq" /\ input_buffer[p] # << >>
            /\ input_buffer'[p] = Tail(input_buffer[p])
            => pc'[p] = "r_data" /\ batch_id'[p] = last_received_packet[p]]_vars

\* C14 witness: on a clean channel both sides have declared the connection
\* established in their first attempt.
C14_Established == clean /\ FirstAttempt /\ \A p \in Peers : in_session[p]

\* C15: a peer that decrypts a hello-phase message to something other than
\* the expected plaintext ('Hello', 'Hi' or the byte 0x02) ends its session
\* with ConnectionAbortedError, which sender() / receiver() catch to start
\* the handshake again: the step of a peer that has read a hello-phase
\* message which does not decrypt to the expected plaintext raises
\* ConnectionAbortedError.
C15_HelloMismatchAborted ==
    [][\A p \in Peers :
          pc[p] = "kx_loop" /\ ~KxAccepts(p, kx_step[p]) /\ pc'[p] # pc[p]
          => pc'[p] \in ConnectionAborted]_vars

\* C16: when ConnectionAbortedError has been raised, the program goes on at
\* the head of connect_init_sender / connect_init_receiver; every attempt
\* begins with both buffers empty, last_sent_packet = last_received_packet =
\* -1 and no first_packet_time, and this still holds when the initiator is
\* about to write its first SYN.
C16_AbortResets ==
    /\ [](\A p \in Peers :
            pc[p] = "ci_syn" /\ syn_retries[p] = SynRetries =>
                /\ input_buffer[p] = << >>
                /\ output_buffer[p] = << >>
                /\ last_sent_packet[p] = -1
                /\ last_received_packet[p] = -1
                /\ first_packet_time[p] = 0)
    /\ [][\A p \in Peers :
            /\ pc[p] \in ConnectionAborted /\ pc'[p] # pc[p] => pc'[p] = "connect"
            /\ pc[p] = "connect" /\ pc'[p] # pc[p] =>
                  /\ pc'[p] \in {"ci_syn", "cr_wait"}
                  /\ input_buffer'[p] = << >>
                  /\ output_buffer'[p] = << >>
                  /\ last_sent_packet'[p] = -1
                  /\ last_received_packet'[p] = -1
                  /\ first_packet_time'[p] = 0]_vars

\* C16 witness: a peer whose session was cut by ConnectionAbortedError (its
\* key is still live) has begun its second attempt in the handshake state.
C16_ReenteredAfterAbort ==
    \E p \in Peers :
        /\ attempt[p] = 2 /\ pc[p] \in {"ci_syn", "cr_wait"}
        /\ session_key[p].state = "live"
        /\ last_sent_packet[p] = -1 /\ last_received_packet[p] = -1

\* C17: whenever a session has ended, by session_start returning or by
\* ConnectionAbortedError propagating out of it, the session key has been
\* disposed by the time the next handshake begins: the step that starts a new
\* connection attempt after a session finds the session key disposed.
C17_KeyDisposedAtSessionEnd ==
    [][\A p \in Peers :
          pc[p] = "connect" /\ pc'[p] # pc[p] /\ in_session[p]
          => session_key[p].state = "disposed"]_vars

\* C18: no two encryptions under the same session key, by either peer, in
\* the hello phase or for user messages, use the same nonce.
C18_NoNonceReuse ==
    \A p \in Peers : \A q \in Peers :
        \A i \in DOMAIN enc_log[p] : \A j \in DOMAIN enc_log[q] :
            /\ << p, i >> # << q, j >>
            /\ enc_log[p][i].key = enc_log[q][j].key
            => enc_log[p][i].nonce # enc_log[q][j].nonce

-----------------------------------------------------------------------------
(* cryptoec.py: one SymmetricKey called directly; alternative.py: send, the
   blob and its chunks *)

\* The most encrypt calls made on one key.
MaxEncrypts == 260

\* The longest plaintext passed to send.
MaxLength == 260

\* What neither the calls of SymmetricKey nor send, up to its calls of
\* write_insecure, touch.
pureFrame == << pc, script, paired, established, loss, last_sent_packet,
               last_received_packet, turn_write, input_buffer, in_tag,
               output_buffer, air, full_data, result, res_tag, size, retries,
               batch_id, seq_tag, calls, seq_at_call, txlog, got, got_id,
               last_ack, returned, caller, left_size, connVars, clean, threads >>

\* Both peers hold a SymmetricKey fresh from __init__ (_nonce_counter = 0)
\* for the same key bytes; no transport call is made.
InitKey ==
    /\ Init
    /\ ~established
    /\ loss = 0
    /\ script = [p \in Peers |-> << >>]

\* SymmetricKey.encrypt, lines 51-54, called on the key of peer p: the nonce
\* is taken and the counter advanced; the ciphertext reaches both peers.
KeyEncrypt(p) ==
    /\ session_key[p].ctr < MaxEncrypts
    /\ \E data \in {Message(0), Message(ShortLength)} :
          cipher_buffer' = [q \in Peers |-> Encrypt(session_key[p], data)]
    /\ session_key' = [session_key EXCEPT ![p] = NonceUsed(@)]
    /\ enc_log' = [enc_log EXCEPT ![p] = Append(@, Encryption(session_key[p]))]
    /\ UNCHANGED << pureFrame, data_chunks, sent_msgs, wrote, recv_msgs >>

\* SymmetricKey.decrypt, lines 56-60, called on the key of peer p with the
\* ciphertext it holds; recv_msgs keeps the plaintext returned last.
KeyDecrypt(p) ==
    /\ cipher_buffer[p] # << >>
    /\ recv_msgs' = [recv_msgs EXCEPT ![p] = << Decrypt(session_key[p], cipher_buffer[p]) >>]
    /\ UNCHANGED << pureFrame, data_chunks, sent_msgs, wrote, session_key,
                    cipher_buffer, enc_log >>

\* The key of the sender encrypts; either key decrypts.
NextKey ==
    \/ \E p \in {q \in Peers : IsSender(q)} : KeyEncrypt(p)
    \/ \E p \in Peers : KeyDecrypt(p)

SpecKey == InitKey /\ [][NextKey]_vars

\* C19: the k-th encrypt call of one SymmetricKey uses the nonce k-1 as 8
\* little-endian bytes (and the counter stands at the number of calls made),
\* so the nonces it emits increase strictly and do not repeat; decrypt does
\* not change the nonce counter (a step that is not an encrypt call leaves
\* every key as it was).
C19_NonceCounter ==
    /\ [](\A p \in Peers :
            /\ session_key[p].ctr = Len(enc_log[p])
            /\ \A k \in DOMAIN enc_log[p] :
                  /\ Len(enc_log[p][k].nonce) = 8
                  /\ FromLE(enc_log[p][k].nonce) = k - 1
                  /\ k > 1 =>
                        FromLE(enc_log[p][k - 1].nonce) < FromLE(enc_log[p][k].nonce))
    /\ [][enc_log' = enc_log => session_key' = session_key]_vars

\* C19 witness: a key has encrypted more than 256 times, so that its nonce
\* needs a second byte, and has decrypted since.
C19_ManyEncryptions ==
    \E p \in Peers :
        /\ Len(enc_log[p]) > 256
        /\ recv_msgs[p] # << >>
        /\ session_key[p].ctr = Len(enc_log[p])

\* An established session in which no call has been made yet.
InitSend ==
    /\ Init
    /\ established
    /\ loss = 0
    /\ script = [p \in Peers |-> << >>]

\* send, lines 427-445, called once with a plaintext of any length up to
\* MaxLength: the blob is built and cut into data_chunks.
SendBlob(p) ==
    /\ \A q \in Peers : sent_msgs[q] = << >>
    /\ \E l \in 0..MaxLength :
          /\ data_chunks' = [data_chunks EXCEPT ![p] =
                Chunks(Framed(Encrypt(session_key[p], Message(l))))]
          /\ sent_msgs' = [sent_msgs EXCEPT ![p] = << Message(l) >>]
    /\ session_key' = [session_key EXCEPT ![p] = NonceUsed(@)]
    /\ enc_log' = [enc_log EXCEPT ![p] = Append(@, Encryption(session_key[p]))]
    /\ UNCHANGED << pureFrame, cipher_buffer, recv_msgs, wrote >>

\* send, lines 447-448: the next chunk is passed to write_insecure.
SendChunk(p) ==
    /\ data_chunks[p] # << >>
    /\ wrote' = [wrote EXCEPT ![p] = Append(@, Head(data_chunks[p]))]
    /\ data_chunks' = [data_chunks EXCEPT ![p] = Tail(@)]
    /\ UNCHANGED << pureFrame, cipher_buffer, recv_msgs, session_key, sent_msgs,
                    enc_log >>

NextSend == \E p \in Peers : SendBlob(p) \/ SendChunk(p)

SpecSend == InitSend /\ [][NextSend]_vars

RECURSIVE Joined(_)
\* The concatenation of a list of byte strings.
Joined(parts) == IF parts = << >> THEN << >> ELSE Head(parts) \o Joined(Tail(parts))

\* C20: send(M) splits the blob B = u32le(|M|+8) + nonce + ciphertext into
\* exactly ceil(|B|/126) chunks passed to write_insecure in order (those
\* passed already, then those still to pass); every chunk is non-empty, every
\* chunk but the last has 126 bytes, and the chunks concatenated give B. An
\* empty M gives one chunk of 12 bytes, an M of 200 bytes two chunks.
C20_SendChunking ==
    \A p \in Peers :
        sent_msgs[p] # << >> =>
            LET M == sent_msgs[p][1]
                e == enc_log[p][1]
                B == LEBytes(Len(M) + 8, 4) \o e.nonce \o ChaCha20(e.key, e.nonce, M)
                chunks == wrote[p] \o data_chunks[p]
            IN /\ Len(chunks) = (Len(B) + 125) \div 126
               /\ \A i \in DOMAIN chunks :
                     /\ Len(chunks[i]) > 0
                     /\ i < Len(chunks) => Len(chunks[i]) = 126
               /\ Joined(chunks) = B
               /\ Len(M) = 0 => Len(chunks) = 1 /\ Len(chunks[1]) = 12
               /\ Len(M) = 200 => Len(chunks) = 2

\* C20 witness: a plaintext of 240 bytes, whose blob is exactly two full
\* chunks, has been sent and both chunks have been passed to write_insecure.
C20_FullChunksWritten ==
    \E p \in Peers :
        /\ sent_msgs[p] # << >>
        /\ Len(sent_msgs[p][1]) = 240
        /\ data_chunks[p] = << >>
        /\ Len(wrote[p]) = 2

\* C21: every packet handed to the modem for a user message, the seq byte
\* and the chunk after encoding by ErrorCorrector, has at most
\* chunk_size_max = 140 bytes, for every plaintext length.
C21_PacketFitsFrame ==
    \A p \in Peers :
        \A i \in DOMAIN (wrote[p] \o data_chunks[p]) :
            EncodedSize(1 + Len((wrote[p] \o data_chunks[p])[i])) <= chunk_size_max

\* C22: send is stop-and-wait. When send goes on to its next chunk or
\* returns, the two bytes accepted for the chunk before are the ACK that the
\* peer emitted for its seq; and at any time the DATA packets of a peer that
\* are queued or in the air and that the other peer has not yet returned
\* from read_insecure all belong to one write_insecure call (in an
\* established session, where send makes the calls).
C22_StopAndWait ==
    /\ [](\A p \in Peers :
            established =>
            Cardinality({ (output_buffer[p] \o air[p])[i].w :
                            i \in { j \in DOMAIN (output_buffer[p] \o air[p]) :
                                      /\ (output_buffer[p] \o air[p])[j].kind = "DATA"
                                      /\ \A g \in DOMAIN got_id[Other(p)] :
                                            got_id[Other(p)][g] #
                                                (output_buffer[p] \o air[p])[j].w } }) <= 1)
    /\ [][\A p \in Peers :
            caller[p] = "send" /\ pc[p] = "s_loop" /\ pc'[p] # "s_loop" =>
                /\ Len(res_tag[p]) = 2
                /\ \A i \in DOMAIN res_tag[p] :
                      /\ res_tag[p][i].k = "ACK"
                      /\ res_tag[p][i].o = i - 1
                      /\ res_tag[p][i].s = last_sent_packet[p]]_vars

\* C24: the transceiver removes bytes from input_buffer (stream.read in
\* read_insecure, in the confirmation loop of write_insecure, in read_equals
\* and in connect_init_receiver) only while the direction is READ: wherever
\* it polls input_buffer the direction is READ, and every step that takes
\* bytes from input_buffer, other than clear_input_buffer, starts in READ.
C24_ReadsOnlyInRead ==
    /\ [](\A p \in Peers :
            pc[p] \in {"r_seq", "r_data", "w_wait", "cr_wait", "cr_ack_wait"}
            => ~turn_write[p])
    /\ [][\A p \in Peers :
            /\ pc[p] \notin {"connect", "r_dup_sleep"}
            /\ Len(input_buffer'[p]) < Len(input_buffer[p])
            => ~turn_write[p]]_vars

\* C24 witness: the responder is in its session with the direction READ,
\* after connect_init_receiver, read_equals, three read_insecure calls and the
\* confirmation loops of two write_insecure calls have taken their bytes.
C24_AllReadersRead ==
    \E p \in Peers :
        /\ ~IsSender(p)
        /\ in_session[p] /\ pc[p] = "idle"
        /\ ~turn_write[p]
        /\ input_buffer[p] = << >>
        /\ Len(got[p]) >= 3
        /\ calls[p] >= 2


-----------------------------------------------------------------------------
(* AlternativeStream, statement by statement: the transport thread, the
   speaker writer (_write_loop) and the mic reader (_read_loop) of ONE peer,
   threads.me, interleaved freely.  The clock counts tenths of a second. *)

SEND_INIT_INTERVAL == 10
SEND_INTERVAL_SENDER == << 2, 3 >>
SEND_INTERVAL_RECEIVER == << 7, 8 >>
MAX_RECEIVING_TIME == 60

\* Tenths of a second the clock runs when the window is looked at.
MaxTicks == 11

\* Calls the transport thread makes on the stream.
MaxStreamOps == 2

\* Transmissions of the peer that reach the microphone.
MaxSignals == 2

\* What is looked at: the window over a full period with no peer heard; the
\* interleavings of the three threads with the peer heard, at one instant;
\* receptions more than MAX_RECEIVING_TIME long or apart, with the transport
\* thread at rest and the clock read every MAX_RECEIVING_TIME + 1 tenths; the
\* clearing of the buffers around one call.
StreamScenarios ==
    { [ticks |-> MaxTicks, step |-> 1, signals |-> 0, ops |-> MaxStreamOps, clears |-> 0],
      [ticks |-> 0, step |-> 1, signals |-> MaxSignals, ops |-> MaxStreamOps, clears |-> 0],
      [ticks |-> 2, step |-> MAX_RECEIVING_TIME + 1, signals |-> 2, ops |-> 0, clears |-> 0],
      [ticks |-> 0, step |-> 1, signals |-> 1, ops |-> 1, clears |-> 2] }

\* __init__, lines 85-88: the side's window inside the 1 s period.
SendInterval(p) == IF IsSender(p) THEN SEND_INTERVAL_SENDER ELSE SEND_INTERVAL_RECEIVER

\* _try_write, lines 149-153: interval_point lies in the side's window.
InWindow(t, first, interval) ==
    LET interval_point == (t - first) % SEND_INIT_INTERVAL
    IN  ~(interval_point < interval[1] \/ interval_point > interval[2])

\* ErrorCorrector.encode: the data followed by REDUNDANCY_SIZE parity bytes for
\* each block of EC_BLOCK_SIZE bytes; errors counts the bytes of the worst
\* block the channel has changed.
Encode(data) ==
    [data |-> data, parity |-> EncodedSize(Len(data)) - Len(data), errors |-> 0]

\* ErrorCorrector.decode: up to REDUNDANCY_SIZE / 2 changed bytes of a block
\* are corrected and the parity is stripped; beyond that ReedSolomonError
\* becomes ValueError (ok is FALSE).
Decode(chunk) ==
    IF 2 * chunk.errors <= REDUNDANCY_SIZE
    THEN [ok |-> TRUE, data |-> chunk.data]
    ELSE [ok |-> FALSE, data |-> << >>]

\* BufferedStream.write, line 108, first operand of the wait condition.
BufferDrainedAlways(buf) == TRUE

BufferDrained(buf) == ~(Len(buf) > 0)

\* BufferedStream.write, line 108, second operand: output_lock.locked().
LockFreeAlways(lock) == TRUE

LockFree(lock) == lock = "none"

\* Faulty variant: the lock stays with its holder.
ReleaseNever(lock) == lock

\* threading.Lock.release, at the end of a `with` block or in `finally`.
Release(lock) == "none"

\* What the transport thread hands to stream.write: a packet numbered by the
\* call.
StreamPackets(k) ==
    { [bytes |-> << 0, ACK >>, kind |-> "DATA", w |-> k] }

\* What the peer modulates: a chunk of two bytes, received with as many
\* changed bytes as the code corrects, or with one more.
Signals ==
    { [Encode(<< 2, 9 >>) EXCEPT !.errors = e] :
        e \in { REDUNDANCY_SIZE \div 2, REDUNDANCY_SIZE \div 2 + 1 } }

NoOp == [kind |-> "none", pkt |-> << >>, length |-> 0, block |-> FALSE]

streamFrame == << script, paired, established, loss, last_sent_packet,
                 last_received_packet, in_tag, full_data, res_tag, size, retries,
                 batch_id, seq_tag, calls, seq_at_call, txlog, wrote, got, got_id,
                 last_ack, returned, sessionVars, runs, attempt, syn_retries,
                 first_packet_time, kx_step, secret_key, in_session, conn_log, garble, clean >>

\* AlternativeStream(True) in sender(), AlternativeStream(False) in
\* receiver(): empty buffers, free locks, both threads started, the modem
\* idle, first_packet_time and receiving_start None (0).
InitStream ==
    \E m \in Peers, sc \in StreamScenarios :
        /\ pc = [p \in Peers |-> "idle"]
        /\ script = [p \in Peers |-> << >>]
        /\ paired = FALSE
        /\ established = FALSE
        /\ loss = 0
        /\ last_sent_packet = [p \in Peers |-> -1]
        /\ last_received_packet = [p \in Peers |-> -1]
        /\ turn_write = [p \in Peers |-> IsSender(p)]
        /\ input_buffer = [p \in Peers |-> << >>]
        /\ in_tag = [p \in Peers |-> << >>]
        /\ output_buffer = [p \in Peers |-> << >>]
        /\ air = [p \in Peers |-> << >>]
        /\ full_data = [p \in Peers |-> << >>]
        /\ result = [p \in Peers |-> << >>]
        /\ res_tag = [p \in Peers |-> << >>]
        /\ size = [p \in Peers |-> 0]
        /\ retries = [p \in Peers |-> 0]
        /\ batch_id = [p \in Peers |-> 0]
        /\ seq_tag = [p \in Peers |-> NoTag]
        /\ calls = [p \in Peers |-> 0]
        /\ seq_at_call = [p \in Peers |-> -1]
        /\ txlog = [p \in Peers |-> << >>]
        /\ wrote = [p \in Peers |-> << >>]
        /\ got = [p \in Peers |-> << >>]
        /\ got_id = [p \in Peers |-> << >>]
        /\ last_ack = [p \in Peers |-> [ack |-> << >>, tag |-> NoTag, dup |-> FALSE]]
        /\ returned = [p \in Peers |-> "none"]
        /\ session_key = [p \in Peers |-> [key |-> SharedKey, ctr |-> 0, state |-> "live"]]
        /\ caller = [p \in Peers |-> "app"]
        /\ data_chunks = [p \in Peers |-> << >>]
        /\ cipher_buffer = [p \in Peers |-> << >>]
        /\ left_size = [p \in Peers |-> 0]
        /\ sent_msgs = [p \in Peers |-> << >>]
        /\ recv_msgs = [p \in Peers |-> << >>]
        /\ enc_log = [p \in Peers |-> << >>]
        /\ runs = 0
        /\ attempt = [p \in Peers |-> 0]
        /\ syn_retries = [p \in Peers |-> 0]
        /\ prev_packet_time = [p \in Peers |-> 0]
        /\ first_packet_time = [p \in Peers |-> 0]
        /\ stream_first_packet_time = [p \in Peers |-> 0]
        /\ kx_step = [p \in Peers |-> 0]
        /\ secret_key = [p \in Peers |-> 0]
        /\ in_session = [p \in Peers |-> FALSE]
        /\ conn_log = << >>
        /\ garble = 0
        /\ clean = TRUE
        /\ threads = [me |-> m,
                      now |-> 1,
                      writer |-> "rx",
                      reader |-> "turn",
                      op |-> NoOp,
                      ops |-> sc.ops,
                      ticks |-> sc.ticks,
                      step |-> sc.step,
                      output_lock |-> "none",
                      input_lock |-> "none",
                      rx_receiving |-> FALSE,
                      receiving_start |-> 0,
                      signal |-> << >>,
                      heard |-> FALSE,
                      signals |-> sc.signals,
                      clears |-> sc.clears,
                      began |-> 0,
                      data |-> << >>,
                      frame |-> << >>]

\* _try_write, lines 130-176, one shared read or write at a time; a False
\* result leads to the silence of _write_loop.
TryWrite(p) ==
    /\ threads.me = p
    /\ threads.writer \in {"rx", "window", "turn", "empty", "acquire", "pop", "write", "release"}
    /\ CASE threads.writer = "rx" ->
              \* lines 131-146
              /\ IF threads.rx_receiving
                 THEN LET start == IF threads.receiving_start = 0
                                   THEN threads.now ELSE threads.receiving_start
                      IN  IF threads.now - start > MAX_RECEIVING_TIME
                          THEN threads' = [threads EXCEPT !.rx_receiving = FALSE,
                                                          !.receiving_start = 0,
                                                          !.began = 0,
                                                          !.writer = "silence"]
                          ELSE threads' = [threads EXCEPT !.receiving_start = start,
                                                          !.writer = "silence"]
                 ELSE threads' = [threads EXCEPT !.writer = "window"]
              /\ UNCHANGED << output_buffer, air >>
         [] threads.writer = "window" ->
              \* lines 148-155
              /\ IF /\ stream_first_packet_time[p] # 0
                    /\ ~InWindow(threads.now, stream_first_packet_time[p], SendInterval(p))
                 THEN threads' = [threads EXCEPT !.writer = "silence"]
                 ELSE threads' = [threads EXCEPT !.writer = "turn"]
              /\ UNCHANGED << output_buffer, air >>
         [] threads.writer = "turn" ->
              \* lines 159-161
              /\ threads' = [threads EXCEPT !.writer =
                                IF ~turn_write[p] THEN "silence" ELSE "empty"]
              /\ UNCHANGED << output_buffer, air >>
         [] threads.writer = "empty" ->
              \* lines 163-165
              /\ threads' = [threads EXCEPT !.writer =
                                IF Len(output_buffer[p]) = 0 THEN "silence" ELSE "acquire"]
              /\ UNCHANGED << output_buffer, air >>
         [] threads.writer = "acquire" ->
              \* lines 167, 176: output_lock.acquire(blocking=False)
              /\ IF threads.output_lock = "none"
                 THEN threads' = [threads EXCEPT !.output_lock = "writer", !.writer = "pop"]
                 ELSE threads' = [threads EXCEPT !.writer = "silence"]
              /\ UNCHANGED << output_buffer, air >>
         [] threads.writer = "pop" ->
              \* line 169: output_buffer.pop() takes the last packet
              /\ output_buffer[p] # << >>
              /\ threads' = [threads EXCEPT
                                !.data = << output_buffer[p][Len(output_buffer[p])] >>,
                                !.writer = "write"]
              /\ output_buffer' = [output_buffer EXCEPT ![p] = Take(@, Len(@) - 1)]
              /\ UNCHANGED air
         [] threads.writer = "write" ->
              \* line 170: the encoded packet begins to sound
              /\ air' = [air EXCEPT ![p] = Append(@, threads.data[1])]
              /\ threads' = [threads EXCEPT !.writer = "release"]
              /\ UNCHANGED output_buffer
         [] threads.writer = "release" ->
              \* lines 171-174: the waveform has been played, the lock is released
              /\ threads' = [threads EXCEPT !.output_lock = Release(@), !.data = << >>,
                                            !.writer = "rx"]
              /\ UNCHANGED << output_buffer, air >>
    /\ UNCHANGED << pc, turn_write, input_buffer, result, prev_packet_time,
                    stream_first_packet_time >>
    /\ UNCHANGED streamFrame

\* _write_loop, lines 181-183: _try_write returned False, silence is played.
WriteLoop(p) ==
    /\ threads.me = p
    /\ threads.writer = "silence"
    /\ threads' = [threads EXCEPT !.writer = "rx"]
    /\ UNCHANGED << pc, turn_write, input_buffer, output_buffer, air, result,
                    prev_packet_time, stream_first_packet_time >>
    /\ UNCHANGED streamFrame

\* _read_loop, lines 106-128.  In WRITE direction reception is stopped and the
\* captured frames are thrown away.  In READ direction a frame is decoded by
\* the modem: the start of the peer's waveform sets rx_receiving, it goes on
\* over any number of frames, its end yields the chunk, which is FEC-decoded and appended under input_lock 0.15 s
\* later.  ValueError is not caught by `except OSError`: the thread ends.
ReadLoop(p) ==
    /\ threads.me = p
    /\ threads.reader \in {"turn", "frame", "lock", "append"}
    /\ CASE threads.reader = "turn" ->
              \* lines 109-115
              /\ IF turn_write[p]
                 THEN threads' = [threads EXCEPT !.rx_receiving = FALSE,
                                                 !.began = 0,
                                                 !.signal = << >>, !.heard = FALSE]
                 ELSE threads' = [threads EXCEPT !.reader = "frame"]
              /\ IF turn_write[p]
                 THEN threads.rx_receiving \/ threads.signal # << >>
                 ELSE TRUE
              /\ UNCHANGED input_buffer
         [] threads.reader = "frame" ->
              \* lines 117-120
              /\ IF threads.signal = << >>
                 THEN threads' = [threads EXCEPT !.reader = "turn"]
                 ELSE IF ~threads.heard
                      THEN threads' = [threads EXCEPT !.rx_receiving = TRUE,
                                                      !.began = threads.now,
                                                      !.heard = TRUE,
                                                      !.reader = "turn"]
                      ELSE IF threads.rx_receiving
                           THEN \/ threads' = [threads EXCEPT !.rx_receiving = FALSE,
                                                              !.began = 0,
                                                              !.frame = threads.signal,
                                                              !.signal = << >>,
                                                              !.heard = FALSE,
                                                              !.reader = "lock"]
                                \/ threads' = [threads EXCEPT !.reader = "turn"]
                           ELSE threads' = [threads EXCEPT !.signal = << >>,
                                                           !.heard = FALSE,
                                                           !.reader = "turn"]
              /\ UNCHANGED input_buffer
         [] threads.reader = "lock" ->
              \* line 123
              /\ threads.input_lock = "none"
              /\ threads' = [threads EXCEPT !.input_lock = "reader", !.reader = "append"]
              /\ UNCHANGED input_buffer
         [] threads.reader = "append" ->
              \* lines 125-126
              /\ IF ~Decode(threads.frame[1]).ok
                 THEN /\ threads' = [threads EXCEPT !.input_lock = Release(@),
                                                    !.frame = << >>,
                                                    !.reader = "dead"]
                      /\ UNCHANGED input_buffer
                 ELSE /\ threads' = [threads EXCEPT !.input_lock = Release(@),
                                                    !.frame = << >>,
                                                    !.reader = "turn"]
                      /\ input_buffer' = [input_buffer EXCEPT ![p] =
                                             @ \o Decode(threads.frame[1]).data]
    /\ UNCHANGED << pc, turn_write, output_buffer, air, result, prev_packet_time,
                    stream_first_packet_time >>
    /\ UNCHANGED streamFrame

\* The transport thread begins a call on the stream, as read_insecure,
\* write_insecure, read_equals and connect_init_* make them: turn_write() and a
\* blocking write (lines 489-491, 547-548), or turn_read() and a read
\* (lines 267-277, 531-533).  During the handshake prev_packet_time is taken
\* before the write (lines 489, 539).
StreamCall(p) ==
    /\ threads.me = p
    /\ pc[p] = "idle"
    /\ threads.ops > 0
    /\ \/ \E pkt \in StreamPackets(threads.ops) :
             /\ threads' = [threads EXCEPT !.ops = @ - 1,
                               !.op = [kind |-> "write", pkt |-> << pkt >>,
                                       length |-> 0, block |-> TRUE]]
             /\ prev_packet_time' =
                   IF stream_first_packet_time[p] = 0
                   THEN [prev_packet_time EXCEPT ![p] = threads.now]
                   ELSE prev_packet_time
       \/ \E n \in ReadSizes, b \in BOOLEAN :
             /\ threads' = [threads EXCEPT !.ops = @ - 1,
                               !.op = [kind |-> "read", pkt |-> << >>,
                                       length |-> n, block |-> b]]
             /\ UNCHANGED prev_packet_time
    /\ pc' = [pc EXCEPT ![p] = "turn_in"]
    /\ UNCHANGED << turn_write, input_buffer, output_buffer, air, result,
                    stream_first_packet_time >>
    /\ UNCHANGED streamFrame

\* connect_init_sender, lines 513-514, connect_init_receiver, lines 553-554:
\* the handshake is through, the stream learns first_packet_time.
FirstPacketTime(p) ==
    /\ threads.me = p
    /\ pc[p] = "idle"
    /\ prev_packet_time[p] # 0
    /\ stream_first_packet_time[p] = 0
    /\ stream_first_packet_time' =
          [stream_first_packet_time EXCEPT ![p] = prev_packet_time[p]]
    /\ UNCHANGED << pc, turn_write, input_buffer, output_buffer, air, result,
                    prev_packet_time, threads >>
    /\ UNCHANGED streamFrame

\* BufferedStream.turn_write / turn_read, lines 41-55: nothing to do when the
\* direction is the wanted one, else input_lock, then output_lock, are taken,
\* the direction is set and both are released.
StreamTurn(p) ==
    /\ threads.me = p
    /\ pc[p] \in {"turn_in", "turn_out", "turn_set"}
    /\ LET want == threads.op.kind = "write"
           next == IF want THEN "append" ELSE "read"
       IN  CASE pc[p] = "turn_in" ->
                  IF turn_write[p] = want
                  THEN /\ pc' = [pc EXCEPT ![p] = next]
                       /\ UNCHANGED << turn_write, threads >>
                  ELSE /\ threads.input_lock = "none"
                       /\ threads' = [threads EXCEPT !.input_lock = "transport"]
                       /\ pc' = [pc EXCEPT ![p] = "turn_out"]
                       /\ UNCHANGED turn_write
             [] pc[p] = "turn_out" ->
                  /\ threads.output_lock = "none"
                  /\ threads' = [threads EXCEPT !.output_lock = "transport"]
                  /\ pc' = [pc EXCEPT ![p] = "turn_set"]
                  /\ UNCHANGED turn_write
             [] pc[p] = "turn_set" ->
                  /\ turn_write' = IF want THEN [turn_write EXCEPT ![p] = TRUE]
                                           ELSE TurnRead(turn_write, p)
                  /\ threads' = [threads EXCEPT !.output_lock = Release(@),
                                                !.input_lock = Release(@)]
                  /\ pc' = [pc EXCEPT ![p] = next]
    /\ UNCHANGED << input_buffer, output_buffer, air, result, prev_packet_time,
                    stream_first_packet_time >>
    /\ UNCHANGED streamFrame

\* BufferedStream.write, lines 100-109, blocking: the packet is appended, then
\* the call waits while the buffer holds a packet or output_lock is locked.
StreamWrite(p) ==
    /\ threads.me = p
    /\ pc[p] \in {"append", "drain_len", "drain_lock"}
    /\ CASE pc[p] = "append" ->
              /\ output_buffer' = [output_buffer EXCEPT ![p] = Append(@, threads.op.pkt[1])]
              /\ pc' = [pc EXCEPT ![p] = "drain_len"]
         [] pc[p] = "drain_len" ->
              /\ BufferDrained(output_buffer[p])
              /\ pc' = [pc EXCEPT ![p] = "drain_lock"]
              /\ UNCHANGED output_buffer
         [] pc[p] = "drain_lock" ->
              /\ pc' = [pc EXCEPT ![p] =
                           IF LockFree(threads.output_lock) THEN "idle" ELSE "drain_len"]
              /\ UNCHANGED output_buffer
    /\ UNCHANGED << turn_write, input_buffer, air, result, prev_packet_time,
                    stream_first_packet_time, threads >>
    /\ UNCHANGED streamFrame

\* BufferedStream.read, lines 60-95: under input_lock, `length` bytes when the
\* buffer holds them, else all of it when not blocking; a blocking read polls
\* without the lock until the buffer holds `length` bytes and takes them under
\* the lock.
StreamRead(p) ==
    /\ threads.me = p
    /\ pc[p] \in {"read", "read_locked", "poll", "take", "take_locked"}
    /\ CASE pc[p] \in {"read", "take"} ->
              \* lines 61, 84
              /\ threads.input_lock = "none"
              /\ threads' = [threads EXCEPT !.input_lock = "transport"]
              /\ pc' = [pc EXCEPT ![p] = IF pc[p] = "read" THEN "read_locked"
                                                          ELSE "take_locked"]
              /\ UNCHANGED << result, input_buffer >>
         [] pc[p] = "read_locked" ->
              \* lines 62-79
              /\ IF threads.op.length <= Len(input_buffer[p]) \/ ~threads.op.block
                 THEN /\ result' = [result EXCEPT ![p] =
                                       ReadData(input_buffer[p], threads.op.length)]
                      /\ input_buffer' = [input_buffer EXCEPT ![p] =
                                             ReadRest(@, threads.op.length)]
                      /\ pc' = [pc EXCEPT ![p] = "idle"]
                 ELSE /\ pc' = [pc EXCEPT ![p] = "poll"]
                      /\ UNCHANGED << result, input_buffer >>
              /\ threads' = [threads EXCEPT !.input_lock = Release(@)]
         [] pc[p] = "poll" ->
              \* lines 81-82
              /\ ~(threads.op.length > Len(input_buffer[p]))
              /\ pc' = [pc EXCEPT ![p] = "take"]
              /\ UNCHANGED << result, input_buffer, threads >>
         [] pc[p] = "take_locked" ->
              \* lines 85-95
              /\ result' = [result EXCEPT ![p] = Take(input_buffer[p], threads.op.length)]
              /\ input_buffer' = [input_buffer EXCEPT ![p] = Drop(@, threads.op.length)]
              /\ threads' = [threads EXCEPT !.input_lock = Release(@)]
              /\ pc' = [pc EXCEPT ![p] = "idle"]
    /\ UNCHANGED << turn_write, output_buffer, air, prev_packet_time,
                    stream_first_packet_time >>
    /\ UNCHANGED streamFrame

\* clear_input_buffer, lines 190-192, and clear_output_buffer, lines 194-196,
\* as connect_init_* (lines 478-479, 525-526) and the duplicate branch of
\* read_insecure (line 305) call them: the lock is taken, the buffer emptied,
\* the lock released.
StreamClear(p) ==
    /\ threads.me = p
    /\ \/ /\ pc[p] = "idle"
          /\ threads.clears > 0
          /\ \E which \in {"clear_input", "clear_output"} :
                pc' = [pc EXCEPT ![p] = which]
          /\ threads' = [threads EXCEPT !.clears = @ - 1]
          /\ UNCHANGED << input_buffer, output_buffer >>
       \/ /\ pc[p] = "clear_input"
          /\ threads.input_lock = "none"
          /\ threads' = [threads EXCEPT !.input_lock = "transport"]
          /\ pc' = [pc EXCEPT ![p] = "clearing_input"]
          /\ UNCHANGED << input_buffer, output_buffer >>
       \/ /\ pc[p] = "clearing_input"
          /\ input_buffer' = [input_buffer EXCEPT ![p] = << >>]
          /\ threads' = [threads EXCEPT !.input_lock = Release(@)]
          /\ pc' = [pc EXCEPT ![p] = "idle"]
          /\ UNCHANGED output_buffer
       \/ /\ pc[p] = "clear_output"
          /\ threads.output_lock = "none"
          /\ threads' = [threads EXCEPT !.output_lock = "transport"]
          /\ pc' = [pc EXCEPT ![p] = "clearing_output"]
          /\ UNCHANGED << input_buffer, output_buffer >>
       \/ /\ pc[p] = "clearing_output"
          /\ output_buffer' = [output_buffer EXCEPT ![p] = << >>]
          /\ threads' = [threads EXCEPT !.output_lock = Release(@)]
          /\ pc' = [pc EXCEPT ![p] = "idle"]
          /\ UNCHANGED input_buffer
    /\ UNCHANGED << turn_write, air, result, prev_packet_time, stream_first_packet_time >>
    /\ UNCHANGED streamFrame

\* The peer begins to modulate a chunk.
PeerTransmits(p) ==
    /\ threads.me = p
    /\ threads.signal = << >>
    /\ threads.signals > 0
    /\ \E c \in Signals :
          threads' = [threads EXCEPT !.signal = << c >>, !.heard = FALSE,
                                     !.signals = @ - 1]
    /\ UNCHANGED << pc, turn_write, input_buffer, output_buffer, air, result,
                    prev_packet_time, stream_first_packet_time >>
    /\ UNCHANGED streamFrame

\* Time passes: a tenth of a second, or the scenario's step.  The statements of _try_write between the
\* window check and the start of the modulation take no such time.
Tick(p) ==
    /\ threads.me = p
    /\ threads.ticks > 0
    /\ threads.writer \notin {"turn", "empty", "acquire", "pop", "write"}
    /\ threads' = [threads EXCEPT !.now = @ + threads.step, !.ticks = @ - 1]
    /\ UNCHANGED << pc, turn_write, input_buffer, output_buffer, air, result,
                    prev_packet_time, stream_first_packet_time >>
    /\ UNCHANGED streamFrame

NextStream ==
    \E p \in Peers :
        \/ TryWrite(p)
        \/ WriteLoop(p)
        \/ ReadLoop(p)
        \/ StreamCall(p)
        \/ FirstPacketTime(p)
        \/ StreamTurn(p)
        \/ StreamWrite(p)
        \/ StreamRead(p)
        \/ StreamClear(p)
        \/ PeerTransmits(p)
        \/ Tick(p)

SpecStream == InitStream /\ [][NextStream]_vars


-----------------------------------------------------------------------------
(* The stream's threads: C23, C25, C26, C27, C29, C30 *)

\* C23: over all interleavings of the transport thread and the speaker
\* writer, a packet is taken from output_buffer and modulated only while the
\* direction is WRITE, and the direction stays WRITE until the modulation has
\* finished: from the acquisition of output_lock before the pop to its release
\* after the waveform, _turn_write is True.
C23_WritesOnlyInWrite ==
    threads.writer \in {"pop", "write", "release"} => turn_write[threads.me]

\* C23 witness: the responder, whose stream began in READ, is modulating a
\* packet while its transport thread waits in the blocking write.
C23_ResponderModulating ==
    /\ threads.me = "B"
    /\ threads.writer = "release"
    /\ pc["B"] = "drain_lock"
    /\ air["B"] # << >>

\* C25: once the stream's first_packet_time is set, the speaker writer starts
\* modulating a packet only at a time whose offset from first_packet_time,
\* modulo 1 s, lies inside the side's window.
C25_ModulatesInWindow ==
    [][\A p \in Peers :
          /\ threads.me = p
          /\ threads.writer = "write" /\ threads.writer' = "release"
          /\ stream_first_packet_time[p] # 0
          => InWindow(threads.now, stream_first_packet_time[p], SendInterval(p))]_vars

\* C26: the speaker writer never starts modulating a packet while the modem
\* is receiving.
C26_SilentWhileReceiving ==
    [][threads.writer = "write" /\ threads.writer' = "release"
          => ~threads.rx_receiving]_vars

\* C27: when the FEC decoding of a received chunk fails nothing of it is
\* appended to input_buffer, nothing is queued for the speaker, and the mic
\* reader keeps running.
C27_FecFailureAbsorbed ==
    /\ [][threads.reader = "append" /\ ~Decode(threads.frame[1]).ok
             => input_buffer' = input_buffer /\ output_buffer' = output_buffer]_vars
    /\ [](threads.reader # "dead")

\* C29: stream.read(n, block) returns a prefix of input_buffer, of exactly n
\* bytes when blocking and of min(n, available) bytes when not, removes
\* exactly the returned bytes and leaves the others in their order; it never
\* returns more than n bytes, whatever the mic reader appends meanwhile.
C29_ReadContract ==
    [][\A p \in Peers :
          pc[p] \in {"read_locked", "take_locked"} /\ pc'[p] = "idle" =>
              LET n == threads.op.length
                  k == IF threads.op.block THEN n ELSE Min(n, Len(input_buffer[p]))
              IN  /\ result'[p] = Take(input_buffer[p], k)
                  /\ input_buffer'[p] = Drop(input_buffer[p], k)
                  /\ Len(result'[p]) <= n]_vars

\* C29 witness: a read of one byte has returned the first byte of a buffer
\* that held two chunks and left the other three bytes.
C29_PrefixReturned ==
    /\ pc[threads.me] = "idle"
    /\ threads.op.kind = "read" /\ threads.op.length = 1
    /\ result[threads.me] = << 2 >>
    /\ input_buffer[threads.me] = << 9, 2, 9 >>

\* C30: a blocking stream.write(chunk) returns only after the speaker writer
\* has removed the chunk from output_buffer and its modulation has finished,
\* output_lock being free again.
C30_WriteReturnsAfterModulation ==
    [][\A p \in Peers :
          pc[p] = "drain_lock" /\ pc'[p] = "idle" =>
              /\ output_buffer[p] = << >>
              /\ threads.output_lock = "none"
              /\ threads.data = << >>
              /\ air[p] # << >>
              /\ air[p][Len(air[p])] = threads.op.pkt[1]]_vars

\* C30 witness: the second blocking write of the transport thread has
\* returned, both packets have been modulated.
C30_SecondWriteReturned ==
    /\ pc[threads.me] = "idle"
    /\ threads.op.kind = "write" /\ threads.ops = 0
    /\ Len(air[threads.me]) = 2
    /\ threads.output_lock = "none"


-----------------------------------------------------------------------------
(* Termination of the transport calls: C28 *)

\* Calls made once each: write_insecure and read_insecure, send and receive
\* of a short message, fewer than MaxOps on each peer and matched by the calls
\* of the other, or a single call that no call of the peer matches.
InitFair ==
    /\ Init
    /\ \/ paired /\ Len(script["A"]) \in 1..(MaxOps - 1)
       \/ Len(script["A"]) + Len(script["B"]) = 1
    /\ \A p \in Peers : \A i \in 1..Len(script[p]) :
          script[p][i].n = 1 /\ Len(script[p][i].data) <= ShortLength

\* Every thread keeps running: the transport thread, the speaker writer and
\* the mic reader of each peer; the timers run out when nothing else happens.
SpecFair ==
    /\ InitFair
    /\ [][Next]_vars
    /\ \A p \in Peers :
          /\ WF_vars(Transport(p))
          /\ WF_vars(SpeakerWrite(p))
          /\ WF_vars(MicRead(p))

\* C28: every call of write_insecure, read_insecure, send and receive
\* terminates, by returning or by raising ConnectionAbortedError: in the end
\* the transport thread of each peer has made all its calls and is at rest,
\* or has raised ConnectionAbortedError; read_insecure raises for
\* abort_timeout only while it has no byte to read.
C28_CallsTerminate ==
    /\ <>[](\A p \in Peers :
               \/ pc[p] = "idle" /\ script[p] = << >>
               \/ pc[p] \in ConnectionAborted)
    /\ [][\A p \in Peers :
             pc[p] \in InRead /\ pc'[p] = "aborted_timeout" => input_buffer[p] = << >>]_vars

\* C28 witness: both peers are at rest, one after read_insecure raised
\* ConnectionAbortedError for its timeout, the other after write_insecure
\* raised it for its retries.
C28_BothAborted ==
    \E p \in Peers :
        /\ pc[p] = "aborted_timeout"
        /\ pc[Other(p)] = "aborted_retries"

-----------------------------------------------------------------------------
(* The key exchanger's secret key: C34 *)

\* C34: on both sides, once key_exchange_sender / key_exchange_receiver has
\* derived the session key with get_symkey, the KeyExchanger holds no secret
\* key any more, during the key confirmation, during the session and after it.
C34_SecretWiped ==
    \A p \in Peers :
        kx_step[p] > (IF IsSender(p) THEN 2 ELSE 1) => secret_key[p] = 0


-----------------------------------------------------------------------------
(* The anchor of the send window after a reset: C38 *)

\* C38: the stream's first_packet_time is absent whenever the transceiver's
\* first_packet_time is absent: once connect_init_* has reset the transceiver,
\* the stream holds no anchor of the previous attempt, so the handshake
\* packets of the new attempt are not gated by the old send window.
C38_StreamAnchorReset ==
    \A p \in Peers : first_packet_time[p] = 0 => stream_first_packet_time[p] = 0


-----------------------------------------------------------------------------
(* connect_init_sender's retries: C32 *)

\* C32: in connect_init_sender, on the first attempt and on every retry after
\* a response that was not SYN|ACK, read_insecure accepts the seq byte 0x00
\* of the responder's SYN|ACK as the expected one and goes on to read the
\* payload (after which [0x00][ACK] is written): it is neither taken for a
\* duplicate nor for a packet ahead.
C32_RetryAcceptsSynAck ==
    [][\A p \in Peers :
          /\ IsSender(p)
          /\ caller[p] = "connect_init"
          /\ pc[p] = "r_seq"
          /\ input_buffer[p] # << >>
          /\ Head(in_tag[p]).k = "SYNACK"
          /\ Head(in_tag[p]).o = 0
          /\ pc'[p] \in {"r_data", "r_dup_sleep", "aborted_skew"}
          => pc'[p] = "r_data"]_vars


-----------------------------------------------------------------------------
(* The sequence counters of the two peers: C39 *)

\* C39: on a channel that loses and corrupts nothing, whenever both peers are
\* in their session and neither is inside read_insecure or write_insecure,
\* each peer's last_received_packet equals the other peer's last_sent_packet;
\* when both have just returned from connect_init_*, the initiator has
\* last_sent_packet = -1 and last_received_packet = 0, the responder
\* last_sent_packet = 0 and last_received_packet = -1.
C39_CountersAgree ==
    /\ (clean /\ \A q \in Peers : in_session[q] /\ pc[q] = "idle")
       => \A p \in Peers : last_received_packet[p] = last_sent_packet[Other(p)]
    /\ (clean /\ \A q \in Peers : pc[q] = (IF IsSender(q) THEN "ci_ack_out" ELSE "cr_done"))
       => \A p \in Peers :
             /\ last_sent_packet[p] = (IF IsSender(p) THEN -1 ELSE 0)
             /\ last_received_packet[p] = (IF IsSender(p) THEN 0 ELSE -1)

\* C39 witness: a message has been sent and received in the session, both
\* peers are at rest and the counters have moved on from their values at
\* session_start.
C39_AtRestAfterMessage ==
    /\ clean
    /\ \A q \in Peers : in_session[q] /\ pc[q] = "idle"
    /\ \E p \in Peers :
          /\ recv_msgs[p] # << >>
          /\ last_received_packet[p] = EstablishedSeq + 1
          /\ last_sent_packet[Other(p)] = EstablishedSeq + 1


-----------------------------------------------------------------------------
(* The clear of read_insecure's duplicate branch: C40 *)

\* C40: when the duplicate branch of read_insecure clears input_buffer, the
\* buffer holds no DATA packet whose seq is the expected one
\* (last_received_packet): only retransmissions of packets that were already
\* accepted are thrown away.
C40_ClearDropsOnlyDuplicates ==
    [][\A p \in Peers :
          pc[p] = "r_dup_sleep" /\ pc'[p] = "r_dup_ack"
          => \A i \in 1..Len(in_tag[p]) :
                ~ /\ in_tag[p][i].k = "DATA"
                  /\ in_tag[p][i].o = 0
                  /\ in_tag[p][i].s = last_received_packet[p]]_vars


-----------------------------------------------------------------------------
(* The locks and the buffers of the stream: C31, C33, C35, C37 *)

\* C31: every mutation of input_buffer (the append of the mic reader, the read
\* of the transport thread, the clear) is made by a thread that holds
\* input_lock, and every mutation of output_buffer (the append of the
\* transport thread, the pop of the speaker writer, the clear) by a thread
\* that holds output_lock.
C31_MutationsUnderLock ==
    [][\A p \in Peers :
          LET who == IF threads'.writer # threads.writer THEN "writer"
                     ELSE IF threads'.reader # threads.reader THEN "reader"
                     ELSE "transport"
          IN  /\ input_buffer'[p] # input_buffer[p] => threads.input_lock = who
              /\ output_buffer'[p] # output_buffer[p] => threads.output_lock = who]_vars

\* C33: _try_write stops the modem's reception by force only when the
\* reception in progress began more than MAX_RECEIVING_TIME ago, also when an
\* earlier reception has ended by itself.
C33_StopsOnlyLongReceptions ==
    [][/\ threads.writer = "rx"
       /\ threads'.writer = "silence"
       /\ threads.rx_receiving
       /\ ~threads'.rx_receiving
       => threads.now - threads.began > MAX_RECEIVING_TIME]_vars

\* C35: output_buffer never holds more than one packet, and the packets are
\* modulated in the order in which the transport thread wrote them (the
\* calls are numbered downwards from MaxStreamOps).
C35_OnePacketBuffered ==
    \A p \in Peers :
        /\ Len(output_buffer[p]) <= 1
        /\ \A i, j \in 1..Len(air[p]) : i < j => air[p][i].w > air[p][j].w

\* C35 witness: two packets have been written and modulated.
C35_TwoModulated ==
    /\ Len(air[threads.me]) = 2
    /\ output_buffer[threads.me] = << >>
    /\ threads.writer = "rx"

\* C37: over all interleavings of _read_loop with the transport thread's
\* turn_write, the mic reader appends decoded bytes to input_buffer only
\* while the direction is READ.
C37_AppendsOnlyInRead ==
    [][\A p \in Peers :
          Len(input_buffer'[p]) > Len(input_buffer[p]) => ~turn_write[p]]_vars


-----------------------------------------------------------------------------
(* The three threads of a stream under fair scheduling: C36 *)

\* The operating system runs every thread that can take a step: the speaker
\* writer (_write_loop), the mic reader (_read_loop) and the transport thread
\* inside a call on the stream.  The arrival of calls and signals and the
\* passing of time are not forced.  The scenarios are those in which the
\* threads interleave: the peer is heard, or the buffers are cleared.
InitStreamFair ==
    /\ InitStream
    /\ threads.ticks <= 2

SpecStreamFair ==
    /\ InitStreamFair
    /\ [][NextStream]_vars
    /\ WF_vars(\E p \in Peers : TryWrite(p) \/ WriteLoop(p))
    /\ WF_vars(\E p \in Peers : ReadLoop(p))
    /\ WF_vars(\E p \in Peers :
                  StreamTurn(p) \/ StreamWrite(p) \/ StreamRead(p) \/ StreamClear(p))

\* C36: the transport thread, the mic reader and the speaker writer do not
\* deadlock on input_lock and output_lock: no thread waits for input_lock
\* while it holds output_lock, every acquired lock is released in the end, and
\* turn_read / turn_write always complete.
C36_NoLockDeadlock ==
    /\ [](\A p \in Peers :
            /\ threads.output_lock = "transport"
               => pc[p] \notin {"turn_in", "read", "take", "clear_input"}
            /\ threads.output_lock = "writer" => threads.input_lock # "writer"
            /\ threads.output_lock = "reader" => threads.reader # "lock")
    /\ (threads.input_lock # "none") ~> (threads.input_lock = "none")
    /\ (threads.output_lock # "none") ~> (threads.output_lock = "none")
    /\ \A p \in Peers :
          (pc[p] \in {"turn_in", "turn_out", "turn_set"})
             ~> (pc[p] \notin {"turn_in", "turn_out", "turn_set"})

\* C36 witness: the transport thread, in turn_write or turn_read, waits for
\* input_lock, which the mic reader holds.
C36_TurnWaitsForReader ==
    \E p \in Peers :
        /\ pc[p] = "turn_in"
        /\ turn_write[p] # (threads.op.kind = "write")
        /\ threads.input_lock = "reader"

=============================================================================
